---- MODULE Spec2Model ----
(***************************************************************************)
(* A model of the state-merge and coordination core of AlpacaTradingAgent: *)
(*   webui/utils/state.py        AppState, the per-symbol state registry   *)
(*                               and process_chunk_updates (the merger)    *)
(*   webui/components/analysis.py  run_analysis, the chunk-stream driver   *)
(*   tradingagents/graph/setup.py  the parallel analyst coordinator        *)
(*   tradingagents/agents/utils/agent_utils.py  timing_wrapper             *)
(*                                                                         *)
(* Text is a sequence of one-character strings, so that length, equality,  *)
(* strip() and prefix removal are computed as the code computes them.      *)
(***************************************************************************)
EXTENDS Integers, Sequences, FiniteSets, TLC

(***************************************************************************)
(* Values                                                                  *)
(***************************************************************************)

\* Python's None where a text is expected (a text never equals it).
NoneV == <<"None">>

\* Python's None where a symbol name is expected.
NoSymbol == "None"

\* Python's None where a debate-state dict is expected.
NoDebate == [none |-> TRUE]

Symbols == {"A", "B"}

Rep(c, n) == [i \in 1..n |-> c]

IsSpace(c) == c = " "

RECURSIVE LStrip(_)
LStrip(s) == IF s # <<>> /\ IsSpace(Head(s)) THEN LStrip(Tail(s)) ELSE s

RECURSIVE RStrip(_)
RStrip(s) ==
    IF s # <<>> /\ IsSpace(s[Len(s)]) THEN RStrip(SubSeq(s, 1, Len(s) - 1)) ELSE s

\* str.strip()
Strip(s) == RStrip(LStrip(s))

\* Python truthiness of a value that is None or a str (or a list)
Truthy(v) == v # NoneV /\ v # <<>>

\* len(x or "")
LenOrEmpty(v) == IF Truthy(v) THEN Len(v) ELSE 0

\* str.startswith
StartsWith(s, p) == Len(s) >= Len(p) /\ SubSeq(s, 1, Len(p)) = p

\* s[n:]
DropFirst(s, n) == IF n >= Len(s) THEN <<>> ELSE SubSeq(s, n + 1, Len(s))

\* str.replace(p, ""): every non-overlapping occurrence of p, left to right
RECURSIVE RemoveAll(_, _)
RemoveAll(s, p) ==
    IF s = <<>> THEN <<>>
    ELSE IF StartsWith(s, p) THEN RemoveAll(DropFirst(s, Len(p)), p)
    ELSE <<Head(s)>> \o RemoveAll(Tail(s), p)

(***************************************************************************)
(* The agents and the report fields of a symbol state                      *)
(***************************************************************************)

Agents ==
    {"Market Analyst", "Social Analyst", "News Analyst", "Fundamentals Analyst",
     "Macro Analyst", "Bull Researcher", "Bear Researcher", "Research Manager",
     "Trader", "Risky Analyst", "Safe Analyst", "Neutral Analyst",
     "Portfolio Manager"}

Statuses == {"pending", "in_progress", "completed"}

\* the analyst report fields, in the order process_chunk_updates visits them
AnalystReportTypes ==
    <<"market_report", "sentiment_report", "news_report", "fundamentals_report",
      "macro_report">>

AnalystReportSet == {AnalystReportTypes[i] : i \in 1..Len(AnalystReportTypes)}

ReportFields ==
    AnalystReportSet \cup
    {"bull_report", "bear_report", "research_manager_report", "investment_plan",
     "trader_investment_plan", "risky_report", "safe_report", "neutral_report",
     "portfolio_decision", "final_trade_decision"}

report_to_agent ==
    [rt \in AnalystReportSet |->
        CASE rt = "market_report" -> "Market Analyst"
          [] rt = "sentiment_report" -> "Social Analyst"
          [] rt = "news_report" -> "News Analyst"
          [] rt = "fundamentals_report" -> "Fundamentals Analyst"
          [] rt = "macro_report" -> "Macro Analyst"]

default_sequence ==
    <<"Market Analyst", "Social Analyst", "News Analyst", "Fundamentals Analyst",
      "Macro Analyst">>

Analysts == {default_sequence[i] : i \in 1..Len(default_sequence)}

\* the analyst types of the graph and f"{analyst_type.capitalize()} Analyst"
AnalystTypes == <<"market", "social", "news", "fundamentals", "macro">>

AnalystTypeSet == {AnalystTypes[i] : i \in 1..Len(AnalystTypes)}

AnalystName(ty) ==
    CASE ty = "market" -> "Market Analyst"
      [] ty = "social" -> "Social Analyst"
      [] ty = "news" -> "News Analyst"
      [] ty = "fundamentals" -> "Fundamentals Analyst"
      [] ty = "macro" -> "Macro Analyst"

\* report_field = f"{analyst_type}_report" for every analyst type
ReportFieldOfPlain(ty) == ty \o "_report"

\* report_field = f"{analyst_type}_report", except social -> sentiment_report
ReportFieldOf(ty) ==
    CASE ty = "market" -> "market_report"
      [] ty = "social" -> "sentiment_report"
      [] ty = "news" -> "news_report"
      [] ty = "fundamentals" -> "fundamentals_report"
      [] ty = "macro" -> "macro_report"

(***************************************************************************)
(* State                                                                   *)
(***************************************************************************)

VARIABLES
    analysis_queue,     \* AppState.analysis_queue
    symbol_states,      \* AppState.symbol_states: symbol -> symbol state
    current_symbol,     \* AppState.current_symbol
    analyzing_symbol,   \* AppState.analyzing_symbol
    active_analysts,    \* AppState.active_analysts (<<>>: not set)
    needs_ui_update,    \* AppState.needs_ui_update
    generated_reports_count,
    llm_calls_log,      \* the message types appended to AppState.llm_calls_log
    llm_calls_count,
    now,                \* time.time()
    runs,               \* run_analysis, one activation per symbol
    heap,               \* the graph-state objects of the parallel coordinator
    tasks,              \* execute_single_analyst, one task per analyst type
    coord,              \* parallel_analysts_execution
    tool_calls_log,     \* AppState.tool_calls_log
    tool_calls_count,   \* AppState.tool_calls_count
    calls               \* the wrapper of timing_wrapper, one per calling thread

appVars ==
    <<analysis_queue, symbol_states, current_symbol, analyzing_symbol,
      active_analysts, needs_ui_update, generated_reports_count, llm_calls_log,
      llm_calls_count, now, runs>>

coVars == <<heap, tasks, coord>>

toolVars == <<tool_calls_log, tool_calls_count, calls>>

vars == <<appVars, coVars, toolVars>>

\* init_symbol_state: the dict stored for a new symbol. The per-field
\* "<report_type>_update_count" keys are read with get(key, 0), so an absent key
\* is the count 0; report_timestamps likewise reads get(report_type, 0).
InitSymbolState(symbol, sid) ==
    [agent_statuses |-> [a \in Agents |-> "pending"],
     current_reports |-> [f \in ReportFields |-> NoneV],
     investment_debate_state |-> NoDebate,
     risk_debate_state |-> NoDebate,
     analysis_complete |-> FALSE,
     analysis_running |-> FALSE,
     analysis_results |-> FALSE,
     recommended_action |-> NoneV,
     ticker_symbol |-> symbol,
     chart_data |-> FALSE,
     session_id |-> sid,
     report_timestamps |-> [f \in AnalystReportSet |-> 0],
     update_count |-> [f \in AnalystReportSet |-> 0]]

(***************************************************************************)
(* AppState helpers                                                        *)
(***************************************************************************)

HasState(symbol) == symbol \in DOMAIN symbol_states

\* the number of reports of one symbol state that update_reports_count counts
ReportsIn(st) ==
    Cardinality({f \in ReportFields :
        st.current_reports[f] # NoneV /\ Strip(st.current_reports[f]) # <<>>})

RECURSIVE SumOver(_, _)
SumOver(S, states) ==
    IF S = {} THEN 0
    ELSE LET x == CHOOSE y \in S : TRUE
         IN ReportsIn(states[x]) + SumOver(S \ {x}, states)

\* update_reports_count: the non-empty reports over all symbol states
update_reports_count(states) == SumOver(DOMAIN states, states)

IndexOf(seq, a) == CHOOSE i \in 1..Len(seq) : seq[i] = a /\ \A j \in 1..(i - 1) : seq[j] # a

InSeq(seq, a) == \E i \in 1..Len(seq) : seq[i] = a

\* analyst_sequence of process_chunk_updates: the default order restricted to
\* active_analysts when that attribute is set and non-empty
AnalystSequence(active) ==
    IF active # <<>>
    THEN LET kept == SelectSeq(default_sequence, LAMBDA a : InSeq(active, a))
         IN IF kept # <<>> THEN kept ELSE active
    ELSE default_sequence

(***************************************************************************)
(* process_chunk_updates works on a context c:                             *)
(*   c.st      the symbol state being merged into                          *)
(*   c.grc     generated_reports_count                                     *)
(*   c.ui      needs_ui_update was set by this call                        *)
(*   c.others  the reports counted in the other symbols' states            *)
(*   c.live    update_agent_status(agent, status, analyzing_symbol) finds  *)
(*             the same symbol state                                       *)
(***************************************************************************)

\* update_agent_status on the symbol state of the context
SetStatus(c, agent, status) ==
    LET s == IF status \in Statuses THEN status ELSE "pending"
    IN IF c.live /\ agent \in DOMAIN c.st.agent_statuses
          /\ c.st.agent_statuses[agent] # s
       THEN [c EXCEPT !.st.agent_statuses[agent] = s, !.ui = TRUE]
       ELSE c

SetReport(c, field, text) == [c EXCEPT !.st.current_reports[field] = text]

CountReports(c) == [c EXCEPT !.grc = c.others + ReportsIn(c.st)]

MarkUi(c) == [c EXCEPT !.ui = TRUE]

\* the transition part of the analyst loop body (state.py 640-665)
AnalystTransition(c, agent, current_status, seq) ==
    IF current_status = "in_progress"
    THEN LET c1 == MarkUi(SetStatus(c, agent, "completed"))
         IN IF InSeq(seq, agent) /\ agent # seq[Len(seq)]
            THEN LET next_analyst == seq[IndexOf(seq, agent) + 1]
                 IN IF c1.st.agent_statuses[next_analyst] = "pending"
                    THEN MarkUi(SetStatus(c1, next_analyst, "in_progress"))
                    ELSE c1
            ELSE c1
    ELSE c

\* the guard without the 20% margin: new_length < current_length
TooShortNoMargin(new_report, current_report) ==
    LenOrEmpty(new_report) < LenOrEmpty(current_report)

\* the guard with the comparison turned round: new_length > current_length * 1.2
TooShortInverted(new_report, current_report) ==
    10 * LenOrEmpty(new_report) > 12 * LenOrEmpty(current_report)

\* the length guard: new_length < current_length * 1.2
TooShort(new_report, current_report) ==
    10 * LenOrEmpty(new_report) < 12 * LenOrEmpty(current_report)

\* the analyst loop body without the hard limit of state.py 607-609
AnalystStepNoBreaker(c, chunk, rt, seq, t) ==
    IF rt \notin DOMAIN chunk THEN c
    ELSE LET new_report == chunk[rt] IN
    IF new_report = NoneV \/ Strip(new_report) = <<>> THEN c
    ELSE
    LET current_report == c.st.current_reports[rt]
        agent == report_to_agent[rt]
        current_status == c.st.agent_statuses[agent]
        last_update_time == c.st.report_timestamps[rt]
        is_duplicate == /\ new_report = current_report
                        /\ current_status = "completed"
                        /\ (t - last_update_time) < 5
        store == new_report # current_report \/ current_status # "completed"
        current_count == c.st.update_count[rt]
    IN
    IF is_duplicate THEN c
    ELSE IF store /\ current_status = "completed" /\ TooShort(new_report, current_report)
    THEN c
    ELSE
    LET stored ==
            IF store
            THEN MarkUi(CountReports(
                   [c EXCEPT !.st.current_reports[rt] = new_report,
                             !.st.report_timestamps[rt] = t,
                             !.st.update_count[rt] = current_count + 1]))
            ELSE c
    IN AnalystTransition(stored, agent, current_status, seq)

\* one iteration of the analyst loop (state.py 551-665)
AnalystStep(c, chunk, rt, seq, t) ==
    IF rt \notin DOMAIN chunk THEN c
    ELSE LET new_report == chunk[rt] IN
    IF new_report = NoneV \/ Strip(new_report) = <<>> THEN c
    ELSE
    LET current_report == c.st.current_reports[rt]
        agent == report_to_agent[rt]
        current_status == c.st.agent_statuses[agent]
        last_update_time == c.st.report_timestamps[rt]
        is_duplicate == /\ new_report = current_report
                        /\ current_status = "completed"
                        /\ (t - last_update_time) < 5
        store == new_report # current_report \/ current_status # "completed"
        current_count == c.st.update_count[rt]
    IN
    IF is_duplicate THEN c
    ELSE IF store /\ current_status = "completed" /\ TooShort(new_report, current_report)
    THEN c
    ELSE IF store /\ current_count > 15 THEN c
    ELSE
    LET stored ==
            IF store
            THEN MarkUi(CountReports(
                   [c EXCEPT !.st.current_reports[rt] = new_report,
                             !.st.report_timestamps[rt] = t,
                             !.st.update_count[rt] = current_count + 1]))
            ELSE c
    IN AnalystTransition(stored, agent, current_status, seq)

RECURSIVE AnalystLoop(_, _, _, _, _)
AnalystLoop(c, chunk, i, seq, t) ==
    IF i > Len(AnalystReportTypes) THEN c
    ELSE AnalystLoop(AnalystStep(c, chunk, AnalystReportTypes[i], seq, t),
                     chunk, i + 1, seq, t)

\* `key in d and d[key]`
Has(d, key) == key \in DOMAIN d /\ Truthy(d[key])

Last(s) == s[Len(s)]

\* "Risky Analyst: ", "Safe Analyst: " and "Neutral Analyst: " as texts
RiskyPrefix ==
    <<"R", "i", "s", "k", "y", " ", "A", "n", "a", "l", "y", "s", "t", ":", " ">>

SafePrefix ==
    <<"S", "a", "f", "e", " ", "A", "n", "a", "l", "y", "s", "t", ":", " ">>

NeutralPrefix ==
    <<"N", "e", "u", "t", "r", "a", "l", " ", "A", "n", "a", "l", "y", "s", "t",
      ":", " ">>

\* one researcher of the investment debate (state.py 674-702)
ResearcherStep(c, ds, agent, history_key, messages_key, report) ==
    IF Has(ds, history_key)
    THEN LET c1 == IF c.st.agent_statuses[agent] = "pending"
                   THEN SetStatus(c, agent, "in_progress")
                   ELSE c
             text == IF Has(ds, messages_key) THEN Last(ds[messages_key])
                     ELSE ds[history_key]
         IN MarkUi(CountReports(SetReport(c1, report, text)))
    ELSE c

\* the verdict without the hand-over to the Trader
ResearchManagerStepNoHandOver(c, ds) ==
    IF Has(ds, "judge_decision")
    THEN LET c1 == SetStatus(c, "Bull Researcher", "completed")
             c2 == SetStatus(c1, "Bear Researcher", "completed")
             c3 == SetStatus(c2, "Research Manager", "completed")
         IN MarkUi(SetReport(SetReport(c3, "research_manager_report", ds.judge_decision),
                             "investment_plan", ds.judge_decision))
    ELSE c

\* the research manager's verdict (state.py 704-712)
ResearchManagerStep(c, ds) ==
    IF Has(ds, "judge_decision")
    THEN LET c1 == SetStatus(c, "Bull Researcher", "completed")
             c2 == SetStatus(c1, "Bear Researcher", "completed")
             c3 == SetStatus(c2, "Research Manager", "completed")
             c4 == SetReport(SetReport(c3, "research_manager_report", ds.judge_decision),
                             "investment_plan", ds.judge_decision)
         IN MarkUi(SetStatus(c4, "Trader", "in_progress"))
    ELSE c

\* state.py 667-712
InvestmentDebateStep(c, chunk) ==
    IF "investment_debate_state" \in DOMAIN chunk
    THEN LET ds == chunk.investment_debate_state
             c0 == [c EXCEPT !.st.investment_debate_state = ds]
             c1 == ResearcherStep(c0, ds, "Bull Researcher", "bull_history",
                                  "bull_messages", "bull_report")
             c2 == ResearcherStep(c1, ds, "Bear Researcher", "bear_history",
                                  "bear_messages", "bear_report")
         IN IF Len(<<c1, c2>>) = 2 THEN ResearchManagerStep(c2, ds) ELSE c
    ELSE c

\* the trader's plan is taken only when it differs from the stored one
TraderStepOnChange(c, chunk) ==
    IF /\ Has(chunk, "trader_investment_plan")
       /\ chunk.trader_investment_plan # c.st.current_reports["trader_investment_plan"]
    THEN LET c1 == CountReports(SetReport(c, "trader_investment_plan",
                                          chunk.trader_investment_plan))
             c2 == SetStatus(c1, "Trader", "completed")
         IN MarkUi(SetStatus(c2, "Risky Analyst", "in_progress"))
    ELSE c

\* state.py 714-720
TraderStep(c, chunk) ==
    IF Has(chunk, "trader_investment_plan")
    THEN LET c1 == CountReports(SetReport(c, "trader_investment_plan",
                                          chunk.trader_investment_plan))
             c2 == SetStatus(c1, "Trader", "completed")
         IN MarkUi(SetStatus(c2, "Risky Analyst", "in_progress"))
    ELSE c

\* one debater of the risk debate (state.py 729-772)
DebaterStep(c, rs, agent, response_key, prefix, report) ==
    IF Has(rs, response_key)
    THEN LET c1 == IF c.st.agent_statuses[agent] = "pending"
                   THEN SetStatus(c, agent, "in_progress")
                   ELSE c
             content == IF StartsWith(rs[response_key], prefix)
                        THEN DropFirst(rs[response_key], Len(prefix))
                        ELSE rs[response_key]
         IN MarkUi(CountReports(SetReport(c1, report, content)))
    ELSE c

\* a back-fill that does not look at the report it replaces
BackFillAlways(c, rs, history_key, prefix, report) ==
    IF history_key \in DOMAIN rs /\ Truthy(rs[history_key])
    THEN SetReport(c, report, Strip(RemoveAll(rs[history_key], prefix)))
    ELSE c

\* the back-fill of one debater's report from its history (state.py 777-790)
BackFill(c, rs, history_key, prefix, report) ==
    IF ~Truthy(c.st.current_reports[report]) /\ history_key \in DOMAIN rs
       /\ Truthy(rs[history_key])
    THEN SetReport(c, report, Strip(RemoveAll(rs[history_key], prefix)))
    ELSE c

\* the verdict that leaves the debaters' statuses as they are
PortfolioManagerStepManagerOnly(c, rs, chunk) ==
    IF Has(rs, "judge_decision")
    THEN LET s4 == SetStatus(c, "Portfolio Manager", "completed")
             r1 == SetReport(SetReport(s4, "portfolio_decision", rs.judge_decision),
                             "final_trade_decision", rs.judge_decision)
         IN MarkUi([r1 EXCEPT !.st.analysis_complete = TRUE])
    ELSE c

\* the portfolio manager's verdict (state.py 774-815)
PortfolioManagerStep(c, rs, chunk) ==
    IF Has(rs, "judge_decision")
    THEN LET b1 == BackFill(c, rs, "risky_history", RiskyPrefix, "risky_report")
             b2 == BackFill(b1, rs, "safe_history", SafePrefix, "safe_report")
             b3 == BackFill(b2, rs, "neutral_history", NeutralPrefix, "neutral_report")
             s1 == SetStatus(b3, "Risky Analyst", "completed")
             s2 == SetStatus(s1, "Safe Analyst", "completed")
             s3 == SetStatus(s2, "Neutral Analyst", "completed")
             s4 == SetStatus(s3, "Portfolio Manager", "completed")
             r1 == SetReport(SetReport(s4, "portfolio_decision", rs.judge_decision),
                             "final_trade_decision", rs.judge_decision)
             r2 == IF "recommended_action" \in DOMAIN chunk
                   THEN [r1 EXCEPT !.st.recommended_action = chunk.recommended_action]
                   ELSE r1
         IN MarkUi([r2 EXCEPT !.st.analysis_complete = TRUE])
    ELSE c

\* state.py 722-815
RiskDebateStep(c, chunk) ==
    IF "risk_debate_state" \in DOMAIN chunk
    THEN LET rs == chunk.risk_debate_state
             c0 == [c EXCEPT !.st.risk_debate_state = rs]
             c1 == DebaterStep(c0, rs, "Risky Analyst", "current_risky_response",
                               RiskyPrefix, "risky_report")
             c2 == DebaterStep(c1, rs, "Safe Analyst", "current_safe_response",
                               SafePrefix, "safe_report")
             c3 == DebaterStep(c2, rs, "Neutral Analyst", "current_neutral_response",
                               NeutralPrefix, "neutral_report")
         IN IF Len(<<c1, c2, c3>>) = 3 THEN PortfolioManagerStep(c3, rs, chunk) ELSE c
    ELSE c

\* A message of a chunk is one of
\*   "human"  a HumanMessage (has .content, .type = "human")
\*   "ai"     any other message object (has .content, another .type)
\*   "raw"    a value without these attributes, such as the tuple ("human", ticker)
MessageKinds == {"human", "ai", "raw"}

\* the type process_chunk_updates logs a message under (state.py 825-830)
LoggedType(m) == IF m \in {"human", "ai"} THEN "Reasoning" ELSE "System"

CountOf(log, ty) == Cardinality({i \in 1..Len(log) : log[i] = ty})

\* llm_calls_count as recomputed at state.py 838-843
LlmCount(log) ==
    IF CountOf(log, "LLM_CALL") > 0 THEN CountOf(log, "LLM_CALL")
    ELSE CountOf(log, "Reasoning")

HasMessages(chunk) == "messages" \in DOMAIN chunk /\ Len(chunk.messages) > 0

\* a human message starts the first pending analyst even while another agent
\* is in progress
HumanMessageStepAlways(c, chunk, seq) ==
    IF /\ HasMessages(chunk)
       /\ InSeq(chunk.messages, "human")
       /\ (\E i \in 1..Len(seq) : c.st.agent_statuses[seq[i]] = "pending")
    THEN LET i == CHOOSE k \in 1..Len(seq) :
                      /\ c.st.agent_statuses[seq[k]] = "pending"
                      /\ \A j \in 1..(k - 1) : c.st.agent_statuses[seq[j]] # "pending"
         IN MarkUi(SetStatus(c, seq[i], "in_progress"))
    ELSE c

\* the initial human message starts the first pending analyst (state.py 854-867)
HumanMessageStep(c, chunk, seq) ==
    IF /\ HasMessages(chunk)
       /\ InSeq(chunk.messages, "human")
       /\ ~(\E a \in DOMAIN c.st.agent_statuses : c.st.agent_statuses[a] = "in_progress")
       /\ (\E i \in 1..Len(seq) : c.st.agent_statuses[seq[i]] = "pending")
    THEN LET i == CHOOSE k \in 1..Len(seq) :
                      /\ c.st.agent_statuses[seq[k]] = "pending"
                      /\ \A j \in 1..(k - 1) : c.st.agent_statuses[seq[j]] # "pending"
         IN MarkUi(SetStatus(c, seq[i], "in_progress"))
    ELSE c

\* the merge of one chunk into the context
\* The stages run one after another as the statements of the function do:
\* Len(<<c1, ...>>) evaluates each stage's context before the next stage reads it.
MergeChunk(c, chunk, seq, t) ==
    LET c1 == AnalystLoop(c, chunk, 1, seq, t)
        c2 == InvestmentDebateStep(c1, chunk)
        c3 == TraderStep(c2, chunk)
        c4 == RiskDebateStep(c3, chunk)
        c5 == IF HasMessages(chunk) THEN MarkUi(c4) ELSE c4
    IN IF Len(<<c1, c2, c3, c4>>) = 4 THEN HumanMessageStep(c5, chunk, seq) ELSE c

(***************************************************************************)
(* Bounds of the model                                                     *)
(***************************************************************************)

\* the longest analysis_queue explored
MaxQueue == 2

\* the chunks of one cumulative stream
MaxValues == 3

\* the number of sessions (fresh session ids) explored
MaxSessions == 2

\* the chunks one run_analysis activation streams
MaxChunks == 2

\* the chunks of one activation fed with sparse chunks in any order
MaxSparse == 3

\* the chunks of one activation when the same few chunks are replayed
MaxReplay == 17

\* the in-place changes one analyst node makes to its state
MaxMutations == 1

\* the tool calls one thread makes
MaxToolCalls == 2

\* time.time() at construction and the last clock reading explored
StartTime == 10

MaxTime == 15

(***************************************************************************)
(* AppState operations                                                     *)
(***************************************************************************)

Max(S) == CHOOSE x \in S : \A y \in S : y <= x

\* str(uuid.uuid4())[:8]: a session id no symbol state holds
NewSessionId == 1 + Max({symbol_states[s].session_id : s \in DOMAIN symbol_states} \cup {0})

\* `self.analyzing_symbol or self.current_symbol`
AnalyzingOrCurrent ==
    IF analyzing_symbol # NoSymbol THEN analyzing_symbol ELSE current_symbol

\* the symbol whose state get_analyzing_state() / get_current_state() returns
\* to process_chunk_updates (state.py 505-510); NoSymbol: the call returns
MergeTarget ==
    IF analyzing_symbol # NoSymbol /\ HasState(analyzing_symbol) THEN analyzing_symbol
    ELSE IF current_symbol # NoSymbol /\ HasState(current_symbol) THEN current_symbol
    ELSE NoSymbol

\* the dict without keys
EmptyDict == [k \in {} |-> <<>>]

IdleRun == [pc |-> "idle", ntrace |-> 0, selected |-> <<>>, todo |-> {},
            coordinated |-> FALSE, last_chunk |-> EmptyDict, session |-> 0,
            traded |-> FALSE]

\* add_symbols_to_queue
AddSymbolsToQueue(symbols) ==
    /\ Len(analysis_queue) + Len(symbols) <= MaxQueue
    /\ analysis_queue' = analysis_queue \o symbols
    /\ UNCHANGED <<coVars, toolVars>>
    /\ UNCHANGED <<symbol_states, current_symbol, analyzing_symbol, active_analysts,
                   needs_ui_update, generated_reports_count, llm_calls_log,
                   llm_calls_count, now, runs>>

\* start_new_session_for_symbol
StartNewSession(st, sid) ==
    [st EXCEPT !.session_id = sid,
               !.report_timestamps = [f \in AnalystReportSet |-> 0]]

\* get_next_symbol
GetNextSymbol ==
    /\ IF analysis_queue # <<>>
       THEN LET next_symbol == Head(analysis_queue)
            IN /\ NewSessionId <= MaxSessions
               /\ analysis_queue' = Tail(analysis_queue)
               /\ analyzing_symbol' = next_symbol
               /\ symbol_states' =
                    IF ~HasState(next_symbol)
                    THEN (next_symbol :> InitSymbolState(next_symbol, NewSessionId))
                            @@ symbol_states
                    ELSE [symbol_states EXCEPT
                            ![next_symbol] = StartNewSession(@, NewSessionId)]
               /\ current_symbol' =
                    IF current_symbol = NoSymbol THEN next_symbol ELSE current_symbol
       ELSE /\ analyzing_symbol' = NoSymbol
            /\ UNCHANGED <<analysis_queue, symbol_states, current_symbol>>
    /\ UNCHANGED <<coVars, toolVars>>
    /\ UNCHANGED <<active_analysts, needs_ui_update, generated_reports_count,
                   llm_calls_log, llm_calls_count, now, runs>>

\* what reset_for_loop's state.update leaves of one symbol state
\* (state.py 361-421): chart_data, ticker_symbol and every key it does not
\* name are kept
ResetSymbolState(st, sid) ==
    [st EXCEPT !.analysis_running = FALSE,
               !.analysis_complete = FALSE,
               !.current_reports = [f \in ReportFields |-> NoneV],
               !.agent_statuses = [a \in Agents |-> "pending"],
               !.analysis_results = FALSE,
               !.recommended_action = NoneV,
               !.session_id = sid,
               !.report_timestamps = [f \in AnalystReportSet |-> 0]]

\* the loop of reset_for_loop over the symbol states, each with a fresh
\* session id
RECURSIVE ResetAll(_, _, _)
ResetAll(states, todo, sid) ==
    IF todo = {} THEN states
    ELSE LET s == CHOOSE x \in todo : TRUE
         IN ResetAll([states EXCEPT ![s] = ResetSymbolState(@, sid)],
                     todo \ {s}, sid + 1)

\* reset_for_loop
ResetForLoop ==
    /\ NewSessionId + Cardinality(DOMAIN symbol_states) - 1 <= MaxSessions
    /\ analysis_queue' = <<>>
    /\ symbol_states' = ResetAll(symbol_states, DOMAIN symbol_states, NewSessionId)
    /\ current_symbol' = NoSymbol
    /\ tool_calls_count' = 0
    /\ llm_calls_count' = 0
    /\ tool_calls_log' = <<>>
    /\ llm_calls_log' = <<>>
    /\ generated_reports_count' = 0
    /\ needs_ui_update' = TRUE
    /\ UNCHANGED <<analyzing_symbol, active_analysts, now, runs, coVars, calls>>

\* update_agent_status(agent, status, symbol) on the registry
UpdateAgentStatus(states, agent, status, symbol) ==
    LET s == IF status \in Statuses THEN status ELSE "pending"
    IN IF symbol \in DOMAIN states /\ agent \in DOMAIN states[symbol].agent_statuses
       THEN [states EXCEPT ![symbol].agent_statuses[agent] = s]
       ELSE states

RECURSIVE UpdateAll(_, _, _, _)
UpdateAll(states, agents, status, symbol) ==
    IF agents = {} THEN states
    ELSE LET a == CHOOSE x \in agents : TRUE
         IN UpdateAll(UpdateAgentStatus(states, a, status, symbol),
                      agents \ {a}, status, symbol)

\* the context process_chunk_updates starts from when it merges into the state
\* of symbol target
ChunkContext(target) ==
    [st |-> symbol_states[target],
     grc |-> generated_reports_count,
     ui |-> FALSE,
     others |-> SumOver(DOMAIN symbol_states \ {target}, symbol_states),
     live |-> AnalyzingOrCurrent = target]

\* process_chunk_updates(chunk) at clock reading t: the registry, the report
\* count, the LLM-call log and the UI flag after the call
ProcessChunkResult(chunk, t) ==
    LET target == MergeTarget IN
    IF target = NoSymbol
    THEN [states |-> symbol_states, grc |-> generated_reports_count,
          log |-> llm_calls_log, count |-> llm_calls_count, ui |-> needs_ui_update]
    ELSE LET c == MergeChunk(ChunkContext(target), chunk,
                             AnalystSequence(active_analysts), t)
             log == IF HasMessages(chunk)
                    THEN llm_calls_log \o
                         [i \in 1..Len(chunk.messages) |-> LoggedType(chunk.messages[i])]
                    ELSE llm_calls_log
         IN [states |-> [symbol_states EXCEPT ![target] = c.st],
             grc |-> c.grc,
             log |-> log,
             count |-> IF HasMessages(chunk) THEN LlmCount(log) ELSE llm_calls_count,
             ui |-> needs_ui_update \/ c.ui]

(***************************************************************************)
(* run_analysis (analysis.py 110-238), one activation per symbol:          *)
(*   pc          idle | streaming | coordinating | done | raised           *)
(*   ntrace      len(trace)                                                *)
(*   selected    selected_analysts                                         *)
(*   todo        the analyst tasks of the coordinator not yet returned     *)
(*   coordinated the "Parallel Analysts" node has run                      *)
(*   last_chunk  trace[-1], the chunk processed last                       *)
(*   session     the session of the symbol this activation was started in  *)
(*   traded      execute_trading_action was called by this activation      *)
(***************************************************************************)

SetRun(s, r) == [runs EXCEPT ![s] = r]

SeqSet(q) == {q[i] : i \in 1..Len(q)}

\* analysis.py 117-128 and 157, for a ticker that has a state. The caller
\* dequeues a symbol with get_next_symbol and then runs its analysis: one
\* activation per session of the symbol.
RunAnalysisStart(s, selected) ==
    /\ runs[s].pc \in {"idle", "done", "raised"}
    /\ HasState(s)
    /\ runs[s].session # symbol_states[s].session_id
    /\ symbol_states' = [symbol_states EXCEPT ![s].analysis_running = TRUE,
                                              ![s].analysis_complete = FALSE]
    /\ needs_ui_update' = TRUE
    /\ runs' = SetRun(s, [IdleRun EXCEPT !.pc = "streaming", !.selected = selected,
                                         !.session = symbol_states[s].session_id])
    /\ UNCHANGED <<coVars, toolVars>>
    /\ UNCHANGED <<analysis_queue, current_symbol, analyzing_symbol, active_analysts,
                   generated_reports_count, llm_calls_log, llm_calls_count, now>>

\* start_analysis creates the initial chart before it calls run_analysis
\* (analysis.py 273-282); when create_chart raises nothing is stored
StartAnalysisChart(s) ==
    /\ runs[s].pc \in {"idle", "done", "raised"}
    /\ HasState(s)
    /\ runs[s].session # symbol_states[s].session_id
    /\ symbol_states' = [symbol_states EXCEPT ![s].chart_data = TRUE]
    /\ UNCHANGED <<coVars, toolVars>>
    /\ UNCHANGED <<analysis_queue, current_symbol, analyzing_symbol, active_analysts,
                   needs_ui_update, generated_reports_count, llm_calls_log,
                   llm_calls_count, now, runs>>

\* analysis.py 123-126 and 233-236, for a ticker that has no state: the return
\* at line 126 runs the finally block, whose current_state["analysis_running"]
\* = False subscripts None and raises TypeError to the caller
RunAnalysisNoState(s) ==
    /\ runs[s].pc \in {"idle", "done"}
    /\ ~HasState(s)
    /\ runs' = SetRun(s, [IdleRun EXCEPT !.pc = "raised"])
    /\ UNCHANGED <<coVars, toolVars>>
    /\ UNCHANGED <<analysis_queue, symbol_states, current_symbol, analyzing_symbol,
                   active_analysts, needs_ui_update, generated_reports_count,
                   llm_calls_log, llm_calls_count, now>>

\* one iteration of the stream loop (analysis.py 162-184): the chunk goes to
\* process_chunk_updates, which merges it into the state of the symbol being
\* analyzed
StreamChunk(s, chunk, dt, max_trace) ==
    /\ runs[s].pc = "streaming"
    /\ runs[s].ntrace < max_trace
    /\ now + dt <= MaxTime
    /\ now' = now + dt
    /\ LET r == ProcessChunkResult(chunk, now + dt)
       IN /\ symbol_states' = r.states
          /\ generated_reports_count' = r.grc
          /\ llm_calls_log' = r.log
          /\ llm_calls_count' = r.count
    /\ needs_ui_update' = TRUE
    /\ runs' = SetRun(s, [runs[s] EXCEPT !.ntrace = @ + 1, !.last_chunk = chunk])
    /\ UNCHANGED <<coVars, toolVars>>
    /\ UNCHANGED <<analysis_queue, current_symbol, analyzing_symbol, active_analysts>>

\* the statuses and reports of the UI after an analyst task ended
\* (setup.py 151-163 and 172-175); ticker: state["company_of_interest"]
AnalystUiEffect(states, ticker, ty, ok, report_content) ==
    LET s1 == UpdateAgentStatus(states, AnalystName(ty), "completed",
                                AnalyzingOrCurrent)
    IN IF ok /\ Truthy(report_content) /\ Truthy(ticker) /\ ticker[1] \in DOMAIN s1
       THEN [s1 EXCEPT ![ticker[1]].current_reports[ReportFieldOf(ty)] = report_content]
       ELSE s1

\* the coordinator node starts (setup.py 67-71): every selected analyst is set
\* in_progress by update_agent_status(name, "in_progress"), symbol not given
CoordinatorBegin(s) ==
    /\ runs[s].pc = "streaming"
    /\ ~runs[s].coordinated
    /\ LET names == {AnalystName(ty) : ty \in SeqSet(runs[s].selected)}
           after == UpdateAll(symbol_states, names, "in_progress", AnalyzingOrCurrent)
       IN /\ symbol_states' = after
          /\ needs_ui_update' = (needs_ui_update \/ after # symbol_states)
    /\ runs' = SetRun(s, [runs[s] EXCEPT !.pc = "coordinating",
                                        !.todo = SeqSet(runs[s].selected)])
    /\ UNCHANGED <<coVars, toolVars>>
    /\ UNCHANGED <<analysis_queue, current_symbol, analyzing_symbol, active_analysts,
                   generated_reports_count, llm_calls_log, llm_calls_count, now>>

\* an analyst task reaches its end (setup.py 151-177). ok: the task did not
\* raise; report_content: the report it extracted (NoneV or empty: none).
\* The status goes to the symbol being analyzed, the report to the state of
\* state["company_of_interest"], the ticker of this run.
AnalystReturns(s, ty, ok, report_content) ==
    /\ runs[s].pc = "coordinating"
    /\ ty \in runs[s].todo
    /\ symbol_states' = AnalystUiEffect(symbol_states, <<s>>, ty, ok, report_content)
    /\ needs_ui_update' =
          (needs_ui_update \/
           UpdateAgentStatus(symbol_states, AnalystName(ty), "completed",
                             AnalyzingOrCurrent) # symbol_states)
    /\ runs' = SetRun(s, [runs[s] EXCEPT !.todo = @ \ {ty}])
    /\ UNCHANGED <<coVars, toolVars>>
    /\ UNCHANGED <<analysis_queue, current_symbol, analyzing_symbol, active_analysts,
                   generated_reports_count, llm_calls_log, llm_calls_count, now>>

\* the coordinator node returns (setup.py 206-258); its write to the UI state
\* at 238-243 looks the ticker up under state["ticker"], a key the graph state
\* of create_initial_state does not have, and so does nothing
CoordinatorEnd(s) ==
    /\ runs[s].pc = "coordinating"
    /\ runs[s].todo = {}
    /\ runs' = SetRun(s, [runs[s] EXCEPT !.pc = "streaming", !.coordinated = TRUE])
    /\ UNCHANGED <<coVars, toolVars>>
    /\ UNCHANGED <<analysis_queue, symbol_states, current_symbol, analyzing_symbol,
                   active_analysts, needs_ui_update, generated_reports_count,
                   llm_calls_log, llm_calls_count, now>>

\* execute_trade_after_analysis reaches execute_trading_action
\* (analysis.py 14-64): the state exists, its analysis is complete and a
\* recommended action is stored or extract_recommendation finds one in the
\* final trade decision (extracted: it returns an action)
TradeExecutes(st, extracted) ==
    /\ st.analysis_complete
    /\ \/ Truthy(st.recommended_action)
       \/ Truthy(st.current_reports["final_trade_decision"]) /\ extracted

\* the end of the stream with the trade made whenever trading is enabled
RunAnalysisEndTradeAnyway(s, decision, chart_ok, trade_enabled, extracted) ==
    /\ runs[s].pc = "streaming"
    /\ runs[s].ntrace > 0
    /\ "final_trade_decision" \in DOMAIN runs[s].last_chunk
    /\ LET s1 == [symbol_states EXCEPT ![s].recommended_action = decision]
           s2 == UpdateAll(s1, DOMAIN s1[s].agent_statuses, "completed",
                           AnalyzingOrCurrent)
           s3 == [s2 EXCEPT ![s].analysis_results = TRUE]
           s4 == IF chart_ok
                 THEN [s3 EXCEPT ![s].chart_data = TRUE, ![s].analysis_complete = TRUE]
                 ELSE s3
       IN /\ symbol_states' = [s4 EXCEPT ![s].analysis_running = FALSE]
          /\ runs' = SetRun(s, [runs[s] EXCEPT
                                    !.pc = "done",
                                    !.traded = trade_enabled])
    /\ needs_ui_update' = TRUE
    /\ UNCHANGED <<coVars, toolVars>>
    /\ UNCHANGED <<analysis_queue, current_symbol, analyzing_symbol, active_analysts,
                   generated_reports_count, llm_calls_log, llm_calls_count, now>>

\* the stream ends and the final results are stored (analysis.py 186-225);
\* chart_ok = FALSE: create_chart raises after analysis_results is set, and
\* the rest of the try block, the trade included, is skipped;
\* trade_enabled: AppState.trade_enabled
RunAnalysisEnd(s, decision, chart_ok, trade_enabled, extracted) ==
    /\ runs[s].pc = "streaming"
    /\ runs[s].ntrace > 0
    /\ "final_trade_decision" \in DOMAIN runs[s].last_chunk
    /\ LET s1 == [symbol_states EXCEPT ![s].recommended_action = decision]
           s2 == UpdateAll(s1, DOMAIN s1[s].agent_statuses, "completed",
                           AnalyzingOrCurrent)
           s3 == [s2 EXCEPT ![s].analysis_results = TRUE]
           s4 == IF chart_ok
                 THEN [s3 EXCEPT ![s].chart_data = TRUE, ![s].analysis_complete = TRUE]
                 ELSE s3
       IN /\ symbol_states' = [s4 EXCEPT ![s].analysis_running = FALSE]
          /\ runs' = SetRun(s, [runs[s] EXCEPT
                                    !.pc = "done",
                                    !.traded = chart_ok /\ trade_enabled /\ TradeExecutes(s4[s], extracted)])
    /\ needs_ui_update' = TRUE
    /\ UNCHANGED <<coVars, toolVars>>
    /\ UNCHANGED <<analysis_queue, current_symbol, analyzing_symbol, active_analysts,
                   generated_reports_count, llm_calls_log, llm_calls_count, now>>

\* the end of the stream with trading disabled, as AppState starts
\* (state.py 44)
RunAnalysisFinish(s, decision, chart_ok) ==
    RunAnalysisEnd(s, decision, chart_ok, FALSE, FALSE)

\* the stream, or the extraction of the final decision, raises
\* (analysis.py 227-236)
RunAnalysisError(s) ==
    /\ runs[s].pc = "streaming"
    /\ symbol_states' = [symbol_states EXCEPT ![s].analysis_running = FALSE]
    /\ runs' = SetRun(s, [runs[s] EXCEPT !.pc = "done"])
    /\ UNCHANGED <<coVars, toolVars>>
    /\ UNCHANGED <<analysis_queue, current_symbol, analyzing_symbol, active_analysts,
                   needs_ui_update, generated_reports_count, llm_calls_log,
                   llm_calls_count, now>>

(***************************************************************************)
(* Inputs: the texts and the chunks the stream delivers                    *)
(***************************************************************************)

Ta == Rep("a", 1)

Tb == Rep("b", 1)

Taa == Rep("a", 2)

Blank == <<" ">>

\* a report of 5 characters, one of 6 (exactly 120%) and one of 5 that differs
T5 == Rep("a", 5)

T6 == Rep("a", 6)

U5 == Rep("b", 5)

HumanMessages == "messages" :> <<"human">>

\* the debate states of create_initial_state (propagation.py 28-51), with the
\* keys process_chunk_updates reads
EmptyInvest ==
    [bull_history |-> <<>>, bear_history |-> <<>>, bull_messages |-> <<>>,
     bear_messages |-> <<>>, judge_decision |-> <<>>]

EmptyRisk ==
    [current_risky_response |-> <<>>, current_safe_response |-> <<>>,
     current_neutral_response |-> <<>>, risky_history |-> <<>>,
     safe_history |-> <<>>, neutral_history |-> <<>>, judge_decision |-> <<>>]

\* the first chunk of a stream: the initial graph state
InitialChunk ==
    [messages |-> <<"human">>,
     market_report |-> <<>>, sentiment_report |-> <<>>, news_report |-> <<>>,
     fundamentals_report |-> <<>>, macro_report |-> <<>>,
     investment_debate_state |-> EmptyInvest,
     risk_debate_state |-> EmptyRisk]

InvestStates ==
    {[EmptyInvest EXCEPT !.bull_history = <<"u", "v">>],
     [EmptyInvest EXCEPT !.bull_history = <<"u", "v">>, !.bull_messages = <<<<"u">>, <<"v">>>>],
     [EmptyInvest EXCEPT !.bear_history = <<"w">>, !.bear_messages = <<<<"w">>>>],
     [EmptyInvest EXCEPT !.judge_decision = <<"j">>]}

RiskStates ==
    {[EmptyRisk EXCEPT !.current_risky_response = RiskyPrefix \o <<"r">>,
                       !.risky_history = RiskyPrefix \o <<"r">>],
     [EmptyRisk EXCEPT !.current_safe_response = <<"s">>],
     [EmptyRisk EXCEPT !.current_neutral_response = NeutralPrefix \o <<"n">>],
     [EmptyRisk EXCEPT !.judge_decision = <<"d">>],
     [EmptyRisk EXCEPT !.judge_decision = <<"d">>,
                       !.risky_history = RiskyPrefix \o <<"r">>,
                       !.safe_history = SafePrefix \o <<"s">>]}

TraderChunk == "trader_investment_plan" :> <<"p">>

\* the last chunk of a stream that reached the Risk Judge
FinalChunk ==
    [risk_debate_state |-> [EmptyRisk EXCEPT !.judge_decision = <<"d">>],
     final_trade_decision |-> <<"d">>,
     recommended_action |-> <<"B", "U", "Y">>]

\* sparse chunks in any order: what a property test of the merger feeds it
MergeChunks ==
    {rt :> t : rt \in {"market_report", "sentiment_report"}, t \in {Ta, Taa}}
    \cup {rt :> Ta : rt \in {"news_report", "fundamentals_report", "macro_report"}}
    \cup {"market_report" :> Blank, ("market_report" :> Ta) @@ HumanMessages,
          HumanMessages, "messages" :> <<"ai", "raw">>, InitialChunk, TraderChunk,
          FinalChunk}
    \cup {"investment_debate_state" :> ds : ds \in InvestStates}
    \cup {"risk_debate_state" :> rs : rs \in RiskStates}

\* chunks of the cumulative stream (stream_mode="values"): the verdict of the
\* investment debate together with what the later nodes added
CumulativeChunks ==
    LET verdict == "investment_debate_state" :>
                       [EmptyInvest EXCEPT !.bull_history = <<"u", "v">>,
                                           !.bear_history = <<"w">>,
                                           !.judge_decision = <<"j">>]
    IN {verdict @@ HumanMessages,
        verdict @@ TraderChunk,
        verdict @@ TraderChunk @@ FinalChunk}

\* the investment debate as far as it has got: nothing, the bull's turn, the
\* bear's turn, the judge's decision
InvestAt(level) ==
    [bull_history |-> IF level >= 1 THEN <<"u", "v">> ELSE <<>>,
     bull_messages |-> IF level >= 1 THEN <<<<"u">>, <<"v">>>> ELSE <<>>,
     bear_history |-> IF level >= 2 THEN <<"w">> ELSE <<>>,
     bear_messages |-> IF level >= 2 THEN <<<<"w">>>> ELSE <<>>,
     judge_decision |-> IF level >= 3 THEN <<"j">> ELSE <<>>]

\* the risk debate as far as it has got: nothing, the three debaters in turn,
\* the judge's decision
RiskAt(level) ==
    [current_risky_response |-> IF level >= 1 THEN RiskyPrefix \o <<"r">> ELSE <<>>,
     risky_history |-> IF level >= 1 THEN RiskyPrefix \o <<"r">> ELSE <<>>,
     current_safe_response |-> IF level >= 2 THEN SafePrefix \o <<"s">> ELSE <<>>,
     safe_history |-> IF level >= 2 THEN SafePrefix \o <<"s">> ELSE <<>>,
     current_neutral_response |-> IF level >= 3 THEN NeutralPrefix \o <<"n">> ELSE <<>>,
     neutral_history |-> IF level >= 3 THEN NeutralPrefix \o <<"n">> ELSE <<>>,
     judge_decision |-> IF level >= 4 THEN <<"d">> ELSE <<>>]

\* a chunk of stream_mode="values": the whole graph state (propagation.py
\* 28-60), with the analyst reports, the debates and the trader's plan as far
\* as the graph has got
ValueChunk(reports, invest, plan, risk) ==
    [messages |-> <<"human">>,
     market_report |-> IF reports >= 1 THEN T5 ELSE <<>>,
     sentiment_report |-> IF reports >= 2 THEN T5 ELSE <<>>,
     news_report |-> <<>>, fundamentals_report |-> <<>>, macro_report |-> <<>>,
     investment_debate_state |-> InvestAt(invest),
     trader_investment_plan |-> IF plan THEN <<"p">> ELSE <<>>,
     risk_debate_state |-> RiskAt(risk),
     final_trade_decision |-> IF risk >= 4 THEN <<"d">> ELSE <<>>]

ValueChunks ==
    {ValueChunk(reports, invest, plan, risk) :
        reports \in 0..2, invest \in 0..3, plan \in BOOLEAN, risk \in 0..4}

\* a text field of the earlier chunk is in the later chunk
TextKept(before, after) == Truthy(before) => Truthy(after)

\* chunk holds every field of the chunk before it: every key, every report
\* that was written, and every part of the debates that was filled
Extends(before, chunk) ==
    \A k \in DOMAIN before :
        /\ k \in DOMAIN chunk
        /\ IF k \in {"investment_debate_state", "risk_debate_state"}
           THEN \A f \in DOMAIN before[k] :
                    f \in DOMAIN chunk[k] /\ TextKept(before[k][f], chunk[k][f])
           ELSE IF k = "messages" THEN Len(chunk[k]) >= Len(before[k])
           ELSE Truthy(before[k]) => chunk[k] = before[k]

\* the chunks the verdict rules are probed with
VerdictProbes == MergeChunks \cup CumulativeChunks

\* the sparse chunks a stream of at most MaxSparse chunks is drawn from
SparseChunks ==
    {"market_report" :> Ta, "market_report" :> Taa, "sentiment_report" :> Ta,
     "macro_report" :> Ta, ("market_report" :> Ta) @@ HumanMessages,
     InitialChunk, TraderChunk, FinalChunk,
     "investment_debate_state" :> [EmptyInvest EXCEPT !.judge_decision = <<"j">>],
     "investment_debate_state" :>
         [EmptyInvest EXCEPT !.bull_history = <<"u", "v">>,
                             !.bull_messages = <<<<"u">>, <<"v">>>>],
     "risk_debate_state" :>
         [EmptyRisk EXCEPT !.current_risky_response = RiskyPrefix \o <<"r">>,
                           !.risky_history = RiskyPrefix \o <<"r">>]}

\* one chunk per stage of the pipeline
StageChunks == {InitialChunk, "market_report" :> T5, FinalChunk}

\* the chunks of the two-symbol specification
PairChunks == {"market_report" :> T5, FinalChunk}

\* the chunks replayed against the length guard and the circuit breaker
GuardChunks ==
    {HumanMessages, "market_report" :> Blank, "market_report" :> T5,
     "market_report" :> U5, "market_report" :> T6}

\* AppState.active_analysts as the UI stores it (<<>>: the attribute is not set)
ActiveOptions == {<<>>, <<"Market Analyst", "News Analyst">>}

\* what an analyst task extracts as its report
AnalystReports == {NoneV, T5}

Decisions == {<<"B", "U", "Y">>}

ToolsIdle ==
    /\ tool_calls_log = <<>>
    /\ tool_calls_count = 0
    /\ calls = <<>>

(***************************************************************************)
(* timing_wrapper (agent_utils.py 20-215). A wrapper call of thread c:     *)
(*   pc      idle | waiting (in future.result) | leaving (the return of    *)
(*           the timeout handler waits in the executor's __exit__, which   *)
(*           joins the worker) | returned | raised                         *)
(*   worker  none | running | value | error | timeout_error: the wrapped   *)
(*           function runs, returned, raised an exception, raised a        *)
(*           concurrent.futures.TimeoutError                               *)
(*   n       the calls this thread has made                                *)
(*   web     uses_web_search                                               *)
(*   timed_out  future.result raised because the budget was used up        *)
(*   result  what the wrapper returned                                     *)
(***************************************************************************)

Callers == {1, 2}

DefaultTimeoutSeconds == 120

WebSearchExtraSeconds == 180

\* timeout_seconds after agent_utils.py 30-31
TimeoutSeconds(web) ==
    IF web THEN DefaultTimeoutSeconds + WebSearchExtraSeconds ELSE DefaultTimeoutSeconds

Digit(d) == CASE d = 0 -> "0" [] d = 1 -> "1" [] d = 2 -> "2" [] d = 3 -> "3"
              [] d = 4 -> "4" [] d = 5 -> "5" [] d = 6 -> "6" [] d = 7 -> "7"
              [] d = 8 -> "8" [] d = 9 -> "9"

\* str(n) of a natural number
RECURSIVE Str(_)
Str(n) == IF n < 10 THEN <<Digit(n)>> ELSE Str(n \div 10) \o <<Digit(n % 10)>>

\* func.__name__ of the wrapped tool
ToolName == <<"f">>

\* f"Error: Tool '{tool_name}' timed out after {timeout_seconds}s. ..."
TimeoutMessage(web) ==
    <<"E", "r", "r", "o", "r", ":", " ", "T", "o", "o", "l", " ", "'">> \o ToolName
    \o <<"'", " ", "t", "i", "m", "e", "d", " ", "o", "u", "t", " ", "a", "f", "t",
         "e", "r", " ">> \o Str(TimeoutSeconds(web)) \o <<"s", ".">>

\* `needle in text`
Contains(text, needle) ==
    \E i \in 0..(Len(text) - Len(needle)) :
        SubSeq(text, i + 1, i + Len(needle)) = needle

\* counting: where the thread is in `tool_calls_count = len(tool_calls_log)`
\* after its append ("len": about to read the length, "store": about to
\* store the length it read, seen); pc is where the handler goes on from there
IdleCall == [pc |-> "idle", worker |-> "none", n |-> 0, web |-> FALSE,
             timed_out |-> FALSE, result |-> NoneV, counting |-> "no", seen |-> 0]

\* the tool_call_info appended for call n of thread c
ToolCallRecord(c, status) ==
    [call |-> <<c, calls[c].n>>, status |-> status, symbol |-> AnalyzingOrCurrent]

\* the handler of `except Exception` (agent_utils.py 151-212): the record of
\* the failed call is appended and the exception is raised again
ErrorHandler(c) ==
    [record |-> ToolCallRecord(c, "error"), pc |-> "raised", result |-> NoneV]

\* the timeout caught by `except Exception` like any other exception
TimeoutAsError(c) == ErrorHandler(c)

\* the handler of `except concurrent.futures.TimeoutError`
\* (agent_utils.py 93-120); leaving the with block joins the worker
TimeoutHandler(c) ==
    [record |-> ToolCallRecord(c, "timeout"),
     pc |-> IF calls[c].worker = "running" THEN "leaving" ELSE "returned",
     result |-> TimeoutMessage(calls[c].web)]

\* the path after future.result returned (agent_utils.py 122-149)
SuccessHandler(c) ==
    [record |-> ToolCallRecord(c, "success"), pc |-> "returned", result |-> <<"v">>]

\* a handler that writes back the log as its thread last saw it, with its own
\* record added: the records other threads appended meanwhile are lost
HandleStaleLog(c, h, timed_out) ==
    /\ tool_calls_log' = Append(SelectSeq(tool_calls_log, LAMBDA r : r.call[1] = c),
                                h.record)
    /\ calls' = [calls EXCEPT ![c].pc = h.pc, ![c].result = h.result,
                              ![c].timed_out = timed_out, ![c].counting = "len"]
    /\ UNCHANGED <<analysis_queue, symbol_states, current_symbol, analyzing_symbol,
                   active_analysts, needs_ui_update, generated_reports_count,
                   llm_calls_log, llm_calls_count, now, runs, coVars,
                   tool_calls_count>>

\* a handler appends its record: app_state.tool_calls_log.append(tool_call_info)
\* (agent_utils.py 115, 144, 204)
Handle(c, h, timed_out) ==
    /\ tool_calls_log' = Append(tool_calls_log, h.record)
    /\ calls' = [calls EXCEPT ![c].pc = h.pc, ![c].result = h.result,
                              ![c].timed_out = timed_out, ![c].counting = "len"]
    /\ UNCHANGED <<analysis_queue, symbol_states, current_symbol, analyzing_symbol,
                   active_analysts, needs_ui_update, generated_reports_count,
                   llm_calls_log, llm_calls_count, now, runs, coVars,
                   tool_calls_count>>

\* the right-hand side of `app_state.tool_calls_count = len(app_state.tool_calls_log)`
\* is evaluated (agent_utils.py 116, 145, 205)
ReadLogLength(c) ==
    /\ calls[c].counting = "len"
    /\ calls' = [calls EXCEPT ![c].counting = "store", ![c].seen = Len(tool_calls_log)]
    /\ UNCHANGED <<appVars, coVars, tool_calls_log, tool_calls_count>>

\* the length is stored in app_state.tool_calls_count and needs_ui_update is
\* set (agent_utils.py 116-117, 145-146, 205-206)
StoreToolCallsCount(c) ==
    /\ calls[c].counting = "store"
    /\ tool_calls_count' = calls[c].seen
    /\ needs_ui_update' = TRUE
    /\ calls' = [calls EXCEPT ![c].counting = "no", ![c].seen = 0]
    /\ UNCHANGED <<analysis_queue, symbol_states, current_symbol, analyzing_symbol,
                   active_analysts, generated_reports_count, llm_calls_log,
                   llm_calls_count, now, runs, coVars, tool_calls_log>>

\* the wrapper is called and submits the function (agent_utils.py 36-83)
WrapperCall(c, web) ==
    /\ calls[c].pc \in {"idle", "returned", "raised"}
    /\ calls[c].counting = "no"
    /\ calls[c].n < MaxToolCalls
    /\ calls' = [calls EXCEPT ![c] = [pc |-> "waiting", worker |-> "running",
                                      n |-> calls[c].n + 1, web |-> web,
                                      timed_out |-> FALSE, result |-> NoneV,
                                      counting |-> "no", seen |-> 0]]
    /\ UNCHANGED <<appVars, coVars, tool_calls_log, tool_calls_count>>

\* the wrapped function ends in the worker thread
FunctionEnds(c, outcome) ==
    /\ calls[c].worker = "running"
    /\ calls' = [calls EXCEPT ![c].worker = outcome]
    /\ UNCHANGED <<appVars, coVars, tool_calls_log, tool_calls_count>>

\* future.result(timeout=timeout_seconds) returns the function's value
FutureResultReturns(c) ==
    /\ calls[c].pc = "waiting"
    /\ calls[c].worker = "value"
    /\ Handle(c, SuccessHandler(c), FALSE)

\* future.result raises what the function raised
FutureResultRaises(c) ==
    /\ calls[c].pc = "waiting"
    /\ calls[c].worker \in {"error", "timeout_error"}
    /\ Handle(c, IF calls[c].worker = "timeout_error"
                 THEN TimeoutHandler(c) ELSE ErrorHandler(c), FALSE)

\* the function has not ended when the timeout budget is used up
FutureResultTimesOut(c) ==
    /\ calls[c].pc = "waiting"
    /\ calls[c].worker = "running"
    /\ Handle(c, TimeoutHandler(c), TRUE)

\* ThreadPoolExecutor.__exit__: shutdown(wait=True) returns once the worker
\* has ended, and the wrapper returns the timeout message
ExecutorShutdown(c) ==
    /\ calls[c].pc = "leaving"
    /\ calls[c].counting = "no"
    /\ calls[c].worker # "running"
    /\ calls' = [calls EXCEPT ![c].pc = "returned"]
    /\ UNCHANGED <<appVars, coVars, tool_calls_log, tool_calls_count>>

(***************************************************************************)
(* The parallel coordinator (setup.py 51-260). Graph states are objects:   *)
(*   heap.d  id -> a state dict: its "messages" list (an id of heap.l) and *)
(*           its other keys (fields)                                       *)
(*   heap.l  id -> a list of messages                                      *)
(* A message is [kind, content, id, tool_calls]:                           *)
(*   kind "human", "ai", "remove": message objects; "raw": a tuple such as *)
(*   ("human", ticker), without the attributes content, id and tool_calls  *)
(*   id   the message has an id that is not None                           *)
(***************************************************************************)

HumanMsg == [kind |-> "human", content |-> <<"A">>, id |-> TRUE, tool_calls |-> FALSE]

RawMsg == [kind |-> "raw", content |-> <<>>, id |-> FALSE, tool_calls |-> FALSE]

AiMsg(content, has_id) ==
    [kind |-> "ai", content |-> content, id |-> has_id, tool_calls |-> FALSE]

\* RemoveMessage(id=m.id): a message whose content is ""
RemoveMsg == [kind |-> "remove", content |-> <<>>, id |-> TRUE, tool_calls |-> FALSE]

ToolMsg == [kind |-> "ai", content |-> <<"t">>, id |-> TRUE, tool_calls |-> FALSE]

\* hasattr(m, 'content') and m.content
HasContent(m) == m.kind # "raw" /\ Truthy(m.content)

EmptyHeap == [d |-> EmptyDict, l |-> EmptyDict]

NewId(f) == Cardinality(DOMAIN f) + 1

\* d[key] = value on a dict
SetKey(f, key, value) == (key :> value) @@ f

\* the state dict behind a reference, by value
View(h, ref) == [messages |-> h.l[h.d[ref].messages], fields |-> h.d[ref].fields]

\* a new state dict with a new messages list
NewState(h, value) ==
    LET nd == NewId(h.d)
        nl == NewId(h.l)
    IN [heap |-> [d |-> (nd :> [messages |-> nl, fields |-> value.fields]) @@ h.d,
                  l |-> (nl :> value.messages) @@ h.l],
        ref |-> nd]

\* `analyst_state = state`: no copy, the same object
CopyByReference(h, ref) == [heap |-> h, ref |-> ref]

\* copy.deepcopy(state)
DeepCopy(h, ref) == NewState(h, View(h, ref))

\* merged_state = analyst_state.copy(); merged_state["messages"] = messages:
\* a new dict, whose messages key is bound to the new list
CopyWithMessages(h, ref, messages) ==
    NewState(h, [messages |-> messages, fields |-> h.d[ref].fields])

\* state[field] = text through a reference
WriteField(h, ref, field, text) ==
    [h EXCEPT !.d[ref].fields = SetKey(@, field, text)]

\* state["messages"].append(m) through a reference
AppendMessage(h, ref, m) ==
    [h EXCEPT !.l[h.d[ref].messages] = Append(@, m)]

\* events: the calls the task has made, in order; tool_calls: whether the
\* reasoning output the task ended with asked for tools
NewTask == [pc |-> "new", copy |-> 0, work |-> 0, mutated |-> 0, failed |-> FALSE,
            result |-> 0, report_content |-> NoneV, events |-> <<>>,
            tool_calls |-> FALSE]

IdleCoordinator == [pc |-> "idle", selected |-> <<>>, base |-> 0, order |-> <<>>,
                    results |-> EmptyDict, output |-> 0]

CoordinatorIdle ==
    /\ heap = EmptyHeap
    /\ tasks = [ty \in AnalystTypeSet |-> NewTask]
    /\ coord = IdleCoordinator

\* what an analyst node returns as its report
NodeReport(ty) == <<"r", ty>>

\* the dict an analyst node returns: its last message with or without an id,
\* with the report as content, or without a report
NodeResults(ty) ==
    {[messages |-> <<AiMsg(NodeReport(ty), has_id)>>,
      fields |-> (ReportFieldOf(ty) :> NodeReport(ty))] : has_id \in BOOLEAN}
    \cup {[messages |-> <<AiMsg(<<>>, TRUE)>>, fields |-> (ReportFieldOf(ty) :> <<>>)]}
    \cup {[messages |-> <<[AiMsg(<<>>, TRUE) EXCEPT !.tool_calls = TRUE]>>,
           fields |-> (ReportFieldOf(ty) :> <<>>)]}

\* has_tool_calls of execute_single_analyst (setup.py 90-95)
HasToolCalls(result_state) ==
    /\ result_state.messages # <<>>
    /\ Last(result_state.messages).kind # "raw"
    /\ Last(result_state.messages).tool_calls

\* the message clean-up of execute_single_analyst (setup.py 116-133)
CleanUp(result_state) ==
    IF result_state.messages # <<>>
    THEN LET valid_messages ==
                 SelectSeq(result_state.messages, LAMBDA m : m.kind # "raw" /\ m.id)
         IN IF valid_messages # <<>>
            THEN [messages |-> [i \in 1..Len(valid_messages) |-> RemoveMsg],
                  fields |-> result_state.fields]
            ELSE result_state
    ELSE result_state

\* the report taken from a state: the content of the last message, else the
\* report field (setup.py 142-149 and 219-229)
ExtractContent(st, report_field) ==
    LET from_message ==
            IF st.messages # <<>> /\ HasContent(Last(st.messages))
            THEN Last(st.messages).content
            ELSE NoneV
    IN IF Truthy(from_message) THEN from_message
       ELSE IF report_field \in DOMAIN st.fields THEN st.fields[report_field]
       ELSE NoneV

\* state.get(key, "")
GetOrEmpty(fields, key) == IF key \in DOMAIN fields THEN fields[key] ELSE <<>>

\* the coordinator is called with the graph state (setup.py 54-71)
ParallelAnalystsStart(selected) ==
    /\ coord.pc = "idle"
    /\ coord.base # 0
    /\ LET names == {AnalystName(ty) : ty \in SeqSet(selected)}
           after == UpdateAll(symbol_states, names, "in_progress", AnalyzingOrCurrent)
       IN /\ symbol_states' = after
          /\ needs_ui_update' = (needs_ui_update \/ after # symbol_states)
    /\ coord' = [coord EXCEPT !.pc = "running", !.selected = selected]
    /\ UNCHANGED <<heap, tasks, toolVars>>
    /\ UNCHANGED <<analysis_queue, current_symbol, analyzing_symbol, active_analysts,
                   generated_reports_count, llm_calls_log, llm_calls_count, now, runs>>

\* executor.submit(execute_single_analyst, ...) in the order of
\* selected_analysts (setup.py 183-193)
SubmitAnalyst(ty) ==
    /\ coord.pc = "running"
    /\ \E i \in 1..Len(coord.selected) :
          /\ coord.selected[i] = ty
          /\ tasks[ty].pc = "new"
          /\ \A j \in 1..(i - 1) : tasks[coord.selected[j]].pc # "new"
    /\ tasks' = [tasks EXCEPT ![ty].pc = "submitted"]
    /\ UNCHANGED <<heap, coord, toolVars, appVars>>

\* the task takes its copy of the state (setup.py 73-78)
ExecuteSingleAnalystBegin(ty) ==
    /\ tasks[ty].pc = "submitted"
    /\ LET c == DeepCopy(heap, coord.base)
       IN /\ heap' = c.heap
          /\ tasks' = [tasks EXCEPT ![ty].pc = "running", ![ty].copy = c.ref,
                                    ![ty].work = c.ref,
                                    ![ty].events = <<"reasoning">>]
    /\ UNCHANGED <<coord, toolVars, appVars>>

\* the analyst node changes the state it was called with, in place: it sets
\* its report field or appends a message
AnalystNodeMutates(ty, what) ==
    /\ tasks[ty].pc \in {"running", "second"}
    /\ tasks[ty].mutated < MaxMutations
    /\ heap' = IF what = "field"
               THEN WriteField(heap, tasks[ty].work, ReportFieldOf(ty), <<"x", ty>>)
               ELSE AppendMessage(heap, tasks[ty].work, AiMsg(<<"y", ty>>, TRUE))
    /\ tasks' = [tasks EXCEPT ![ty].mutated = @ + 1]
    /\ UNCHANGED <<coord, toolVars, appVars>>

\* a loop between the node and its tools, as long as the node asks for tools
AnalystNodeCallsToolsLoop(ty) ==
    /\ tasks[ty].pc \in {"running", "second"}
    /\ LET m == CopyWithMessages(heap, tasks[ty].copy, <<ToolMsg>>)
       IN /\ heap' = m.heap
          /\ tasks' = [tasks EXCEPT ![ty].pc = "second", ![ty].work = m.ref,
                                    ![ty].events = @ \o <<"tools", "reasoning">>]
    /\ UNCHANGED <<coord, toolVars, appVars>>

\* the node's result asks for tools; the tool node returns messages and the
\* node is called again on the merged state (setup.py 91-111)
AnalystNodeCallsTools(ty) ==
    /\ tasks[ty].pc = "running"
    /\ LET m == CopyWithMessages(heap, tasks[ty].copy, <<ToolMsg>>)
       IN /\ heap' = m.heap
          /\ tasks' = [tasks EXCEPT ![ty].pc = "second", ![ty].work = m.ref,
                                    ![ty].events = @ \o <<"tools", "reasoning">>]
    /\ UNCHANGED <<coord, toolVars, appVars>>

\* the node returns result_state and the task ends (setup.py 113-165)
ExecuteSingleAnalystReturn(ty, result_state) ==
    /\ tasks[ty].pc \in {"running", "second"}
    /\ tasks[ty].pc = "running" => ~HasToolCalls(result_state)
    /\ LET final_state == CleanUp(result_state)
           report_content == ExtractContent(final_state, ReportFieldOf(ty))
           ticker == GetOrEmpty(heap.d[coord.base].fields, "company_of_interest")
           after == AnalystUiEffect(symbol_states, ticker, ty, TRUE, report_content)
           f == NewState(heap, final_state)
       IN /\ heap' = f.heap
          /\ symbol_states' = after
          /\ needs_ui_update' =
                (needs_ui_update \/
                 UpdateAgentStatus(symbol_states, AnalystName(ty), "completed",
                                   AnalyzingOrCurrent) # symbol_states)
          /\ tasks' = [tasks EXCEPT ![ty].pc = "done", ![ty].result = f.ref,
                                    ![ty].report_content = report_content,
                                    ![ty].events = Append(@, "extraction"),
                                    ![ty].tool_calls = HasToolCalls(result_state)]
    /\ UNCHANGED <<coord, toolVars>>
    /\ UNCHANGED <<analysis_queue, current_symbol, analyzing_symbol, active_analysts,
                   generated_reports_count, llm_calls_log, llm_calls_count, now, runs>>

\* the node or the tool node raises: the task marks its analyst completed and
\* returns analyst_state, its copy (setup.py 167-177)
ExecuteSingleAnalystExcept(ty) ==
    /\ tasks[ty].pc \in {"running", "second"}
    /\ LET after == AnalystUiEffect(symbol_states, <<>>, ty, FALSE, NoneV)
       IN /\ symbol_states' = after
          /\ needs_ui_update' = (needs_ui_update \/ after # symbol_states)
    /\ tasks' = [tasks EXCEPT ![ty].pc = "done", ![ty].failed = TRUE,
                              ![ty].result = tasks[ty].copy]
    /\ UNCHANGED <<heap, coord, toolVars>>
    /\ UNCHANGED <<analysis_queue, current_symbol, analyzing_symbol, active_analysts,
                   generated_reports_count, llm_calls_log, llm_calls_count, now, runs>>

\* as_completed yields the future of a task that ended (setup.py 195-204)
CollectResult(ty) ==
    /\ coord.pc = "running"
    /\ \A i \in 1..Len(coord.selected) : tasks[coord.selected[i]].pc # "new"
    /\ tasks[ty].pc = "done"
    /\ ty \notin DOMAIN coord.results
    /\ coord' = [coord EXCEPT !.results = SetKey(@, ty, tasks[ty].result),
                              !.order = Append(@, ty)]
    /\ UNCHANGED <<heap, tasks, toolVars, appVars>>

\* `final_state.update(result_state)`: every key of the result is taken over
MergeByUpdate(final_state, ty, result_state) ==
    [final_state EXCEPT !.fields = result_state.fields @@ @]

\* one iteration of the merge loop (setup.py 212-256)
MergeOne(final_state, ty, result_state) ==
    LET report_field == ReportFieldOf(ty)
        content == ExtractContent(result_state, report_field)
    IN IF Truthy(content)
       THEN [final_state EXCEPT !.fields = SetKey(@, report_field, content)]
       ELSE IF report_field \notin DOMAIN final_state.fields
            THEN [final_state EXCEPT !.fields = SetKey(@, report_field, <<>>)]
            ELSE final_state

RECURSIVE MergeResults(_, _, _, _)
MergeResults(final_state, h, order, results) ==
    IF order = <<>> THEN final_state
    ELSE MergeResults(MergeOne(final_state, Head(order), View(h, results[Head(order)])),
                      h, Tail(order), results)

\* the reports the merge loop writes to the UI state: to the state of
\* state.get("ticker", "") (setup.py 236-243)
RECURSIVE MergeUi(_, _, _, _, _)
MergeUi(states, ticker, h, order, results) ==
    IF order = <<>> THEN states
    ELSE LET ty == Head(order)
             content == ExtractContent(View(h, results[ty]), ReportFieldOf(ty))
             s1 == IF Truthy(content) /\ Truthy(ticker) /\ ticker[1] \in DOMAIN states
                   THEN [states EXCEPT
                           ![ticker[1]].current_reports[ReportFieldOf(ty)] = content]
                   ELSE states
         IN MergeUi(s1, ticker, h, Tail(order), results)

\* every task was collected: the results are merged into a deep copy of the
\* state and the coordinator returns it (setup.py 206-258)
ParallelAnalystsReturn ==
    /\ coord.pc = "running"
    /\ DOMAIN coord.results = SeqSet(coord.selected)
    /\ LET c == DeepCopy(heap, coord.base)
           merged == MergeResults(View(c.heap, c.ref), c.heap, coord.order, coord.results)
           ticker == GetOrEmpty(heap.d[coord.base].fields, "ticker")
       IN /\ heap' = [c.heap EXCEPT !.d[c.ref].fields = merged.fields]
          /\ coord' = [coord EXCEPT !.pc = "returned", !.output = c.ref]
          /\ symbol_states' =
                MergeUi(symbol_states, ticker, c.heap, coord.order, coord.results)
    /\ UNCHANGED <<tasks, toolVars>>
    /\ UNCHANGED <<analysis_queue, current_symbol, analyzing_symbol, active_analysts,
                   needs_ui_update, generated_reports_count, llm_calls_log,
                   llm_calls_count, now, runs>>

\* the reports of create_initial_state (propagation.py 52-60)
InitialFields ==
    [f \in AnalystReportSet \cup {"company_of_interest"} |->
        IF f = "company_of_interest" THEN <<"A">> ELSE <<>>]

\* the graph state the coordinator is called with: as the graph hands it over
\* (the initial message a HumanMessage), as create_initial_state builds it (the
\* initial message a tuple), and a state without messages and report keys
BaseStates ==
    {[messages |-> <<HumanMsg>>, fields |-> InitialFields],
     [messages |-> <<RawMsg>>, fields |-> InitialFields],
     [messages |-> <<>>, fields |-> ("company_of_interest" :> <<"A">>)]}

(***************************************************************************)
(* Specifications                                                          *)
(***************************************************************************)

\* the state after construction (state.py 7-77)
Init ==
    /\ analysis_queue = <<>>
    /\ symbol_states = EmptyDict
    /\ current_symbol = NoSymbol
    /\ analyzing_symbol = NoSymbol
    /\ active_analysts = <<>>
    /\ needs_ui_update = FALSE
    /\ generated_reports_count = 0
    /\ llm_calls_log = <<>>
    /\ llm_calls_count = 0
    /\ now = StartTime
    /\ runs = [s \in Symbols |-> IdleRun]
    /\ CoordinatorIdle
    /\ ToolsIdle

\* one symbol, queued and analyzed session after session
Next ==
    \/ AddSymbolsToQueue(<<"A">>)
    \/ GetNextSymbol
    \/ RunAnalysisStart("A", <<"market">>)
    \/ RunAnalysisNoState("A")
    \/ \E chunk \in StageChunks, dt \in {0, 5} : StreamChunk("A", chunk, dt, MaxChunks)
    \/ CoordinatorBegin("A")
    \/ \E ok \in BOOLEAN, rc \in AnalystReports : AnalystReturns("A", "market", ok, rc)
    \/ CoordinatorEnd("A")
    \/ \E d \in Decisions, chart_ok \in BOOLEAN : RunAnalysisFinish("A", d, chart_ok)
    \/ RunAnalysisError("A")

Spec == Init /\ [][Next]_vars

\* one symbol analyzed from the UI, loop iteration after loop iteration
LoopNext ==
    \/ AddSymbolsToQueue(<<"A">>)
    \/ GetNextSymbol
    \/ ResetForLoop
    \/ StartAnalysisChart("A")
    \/ RunAnalysisStart("A", <<"market">>)
    \/ \E chunk \in PairChunks : StreamChunk("A", chunk, 0, MaxChunks)
    \/ \E d \in Decisions, chart_ok \in BOOLEAN : RunAnalysisFinish("A", d, chart_ok)
    \/ RunAnalysisError("A")

LoopSpec == Init /\ [][LoopNext]_vars

\* one session of one symbol whose stream is cumulative: every chunk holds
\* what the chunks before it held (analysis.py 162-171)
ValuesNext ==
    \/ RunAnalysisStart("A", <<"market", "social">>)
    \/ \E chunk \in ValueChunks :
          /\ Extends(runs["A"].last_chunk, chunk)
          /\ StreamChunk("A", chunk, 0, MaxValues)
    \/ \E d \in Decisions \cup {NoneV}, chart_ok, trade_enabled, extracted \in BOOLEAN :
          RunAnalysisEnd("A", d, chart_ok, trade_enabled, extracted)
    \/ RunAnalysisError("A")

\* two symbols, queued together and analyzed in any interleaving
PairNext ==
    \/ AddSymbolsToQueue(<<"A", "B">>)
    \/ GetNextSymbol
    \/ \E s \in Symbols :
        \/ RunAnalysisStart(s, <<"market">>)
        \/ \E chunk \in PairChunks : StreamChunk(s, chunk, 0, MaxChunks)
        \/ CoordinatorBegin(s)
        \/ \E ok \in BOOLEAN : AnalystReturns(s, "market", ok, T5)
        \/ CoordinatorEnd(s)
        \/ \E d \in Decisions : RunAnalysisFinish(s, d, TRUE)

PairSpec == Init /\ [][PairNext]_vars

\* the state after add_symbols_to_queue(["A"]) and get_next_symbol(): the first
\* session of symbol A
SessionInit ==
    /\ analysis_queue = <<>>
    /\ symbol_states = ("A" :> InitSymbolState("A", 1))
    /\ current_symbol = "A"
    /\ analyzing_symbol = "A"
    /\ active_analysts \in ActiveOptions
    /\ needs_ui_update = FALSE
    /\ generated_reports_count = 0
    /\ llm_calls_log = <<>>
    /\ llm_calls_count = 0
    /\ now = StartTime
    /\ runs = [s \in Symbols |-> IdleRun]
    /\ CoordinatorIdle
    /\ ToolsIdle

\* one session of one symbol, merged into by sparse chunks in any order
MergeNext ==
    \/ RunAnalysisStart("A", <<"social">>)
    \/ \E chunk \in SparseChunks : StreamChunk("A", chunk, 0, MaxSparse)
    \/ CoordinatorBegin("A")
    \/ \E ok \in BOOLEAN, rc \in AnalystReports : AnalystReturns("A", "social", ok, rc)
    \/ CoordinatorEnd("A")
    \/ \E d \in Decisions, chart_ok \in BOOLEAN : RunAnalysisFinish("A", d, chart_ok)

MergeSpec == SessionInit /\ [][MergeNext]_vars

ValuesSpec == SessionInit /\ [][ValuesNext]_vars

\* one session of one symbol, the same few market reports replayed
GuardNext ==
    \/ RunAnalysisStart("A", <<"market">>)
    \/ \E chunk \in GuardChunks : StreamChunk("A", chunk, 0, MaxReplay)
    \/ CoordinatorBegin("A")
    \/ \E ok \in BOOLEAN, rc \in AnalystReports : AnalystReturns("A", "market", ok, rc)
    \/ CoordinatorEnd("A")

GuardSpec == SessionInit /\ [][GuardNext]_vars

\* the coordinator node is called in the first session of symbol A
CoordInit ==
    /\ analysis_queue = <<>>
    /\ symbol_states = ("A" :> InitSymbolState("A", 1))
    /\ current_symbol = "A"
    /\ analyzing_symbol = "A"
    /\ active_analysts = <<>>
    /\ needs_ui_update = FALSE
    /\ generated_reports_count = 0
    /\ llm_calls_log = <<>>
    /\ llm_calls_count = 0
    /\ now = StartTime
    /\ runs = [s \in Symbols |-> IdleRun]
    /\ \E base \in BaseStates :
          /\ heap = NewState(EmptyHeap, base).heap
          /\ coord = [IdleCoordinator EXCEPT !.base = NewState(EmptyHeap, base).ref]
    /\ tasks = [ty \in AnalystTypeSet |-> NewTask]
    /\ ToolsIdle

CoordNext ==
    \/ ParallelAnalystsStart(<<"market", "social">>)
    \/ \E ty \in {"market", "social"} :
        \/ SubmitAnalyst(ty)
        \/ ExecuteSingleAnalystBegin(ty)
        \/ \E what \in {"field", "message"} : AnalystNodeMutates(ty, what)
        \/ AnalystNodeCallsTools(ty)
        \/ \E result_state \in NodeResults(ty) : ExecuteSingleAnalystReturn(ty, result_state)
        \/ ExecuteSingleAnalystExcept(ty)
        \/ CollectResult(ty)
    \/ ParallelAnalystsReturn

CoordSpec == CoordInit /\ [][CoordNext]_vars

\* two threads call a wrapped tool
ToolInit ==
    /\ analysis_queue = <<>>
    /\ symbol_states = EmptyDict
    /\ current_symbol = NoSymbol
    /\ analyzing_symbol = NoSymbol
    /\ active_analysts = <<>>
    /\ needs_ui_update = FALSE
    /\ generated_reports_count = 0
    /\ llm_calls_log = <<>>
    /\ llm_calls_count = 0
    /\ now = StartTime
    /\ runs = [s \in Symbols |-> IdleRun]
    /\ CoordinatorIdle
    /\ tool_calls_log = <<>>
    /\ tool_calls_count = 0
    /\ calls = [c \in Callers |-> IdleCall]

ToolNext ==
    \E c \in Callers :
        \/ \E web \in BOOLEAN : WrapperCall(c, web)
        \/ \E outcome \in {"value", "error", "timeout_error"} : FunctionEnds(c, outcome)
        \/ FutureResultReturns(c)
        \/ FutureResultRaises(c)
        \/ FutureResultTimesOut(c)
        \/ ReadLogLength(c)
        \/ StoreToolCallsCount(c)
        \/ ExecutorShutdown(c)

ToolSpec == ToolInit /\ [][ToolNext]_vars

\* the wrapper's own thread always takes its next step (future.result returns,
\* raises or times out; the executor's __exit__ returns once the worker has
\* ended); nothing makes the wrapped function end
WrapperFairness ==
    \A c \in Callers :
        /\ WF_vars(FutureResultReturns(c))
        /\ WF_vars(FutureResultRaises(c))
        /\ WF_vars(FutureResultTimesOut(c))
        /\ WF_vars(ReadLogLength(c))
        /\ WF_vars(StoreToolCallsCount(c))
        /\ WF_vars(ExecutorShutdown(c))

ToolLiveSpec == ToolSpec /\ WrapperFairness

(***************************************************************************)
(* Status order                                                            *)
(***************************************************************************)

Rank(status) ==
    CASE status = "pending" -> 0
      [] status = "in_progress" -> 1
      [] status = "completed" -> 2

\* the symbol keeps its state and its session over the step
SameSession(s) ==
    /\ s \in DOMAIN symbol_states
    /\ s \in DOMAIN symbol_states'
    /\ symbol_states'[s].session_id = symbol_states[s].session_id

\* C1: within one session no agent's status moves backwards: not from
\* completed to in_progress or pending, nor from in_progress to pending,
\* whatever chunks are processed and whatever update_agent_status calls the
\* coordinator and the driver make.
C1_StatusNeverRegresses ==
    [][\A s \in Symbols, a \in Agents :
          SameSession(s) =>
             Rank(symbol_states'[s].agent_statuses[a])
                >= Rank(symbol_states[s].agent_statuses[a])]_vars

(***************************************************************************)
(* Replaying a chunk                                                       *)
(***************************************************************************)

\* the part of a symbol state the idempotence of the merger is stated on
MergedFields(st) ==
    <<st.agent_statuses, st.current_reports, st.update_count,
      st.investment_debate_state, st.risk_debate_state, st.analysis_complete>>

\* the context after process_chunk_updates(chunk) is called once more on c
MergeAgain(c, chunk) ==
    MergeChunk([c EXCEPT !.ui = FALSE], chunk, AnalystSequence(active_analysts), now)

\* the context after process_chunk_updates(chunk) in the current state
MergeOnce(chunk) == MergeAgain(ChunkContext(MergeTarget), chunk)

\* C2: in every reachable state and for every chunk, a second
\* process_chunk_updates call with the same chunk leaves the agent statuses,
\* the reports, the update counters, the debate states and analysis_complete
\* as the first call left them.
C2_SecondCallIsNoOp ==
    MergeTarget # NoSymbol =>
        \A chunk \in MergeChunks :
            LET once == MergeOnce(chunk)
            IN MergedFields(MergeAgain(once, chunk).st) = MergedFields(once.st)

(***************************************************************************)
(* Completion                                                              *)
(***************************************************************************)

\* C3: within one session analysis_complete, once true, never returns to
\* false: the step from false to true happens once.
C3_CompleteStaysTrue ==
    [][\A s \in Symbols :
          (SameSession(s) /\ symbol_states[s].analysis_complete)
             => symbol_states'[s].analysis_complete]_vars

(***************************************************************************)
(* The length guard                                                        *)
(***************************************************************************)

T8 == Rep("a", 8)

\* the values a chunk may carry for a report field
ProbeTexts == {Blank, Ta, Taa, T5, U5, T6, Rep("b", 7), T8}

\* the stored report after process_chunk_updates({rt: v}) in the current state
ReportAfter(rt, v) == MergeOnce(rt :> v).st.current_reports[rt]

Stored(rt) == symbol_states[MergeTarget].current_reports[rt]

Completed(rt) ==
    symbol_states[MergeTarget].agent_statuses[report_to_agent[rt]] = "completed"

\* new_length >= 120% of the stored length
LongEnough(v, rt) == 10 * Len(v) >= 12 * LenOrEmpty(Stored(rt))

LengthProbes ==
    {rt :> v : rt \in AnalystReportSet, v \in {Blank, Ta, Tb, Taa, T5}}
    \cup {("market_report" :> Ta) @@ ("macro_report" :> Ta) @@ HumanMessages,
          [market_report |-> Ta, sentiment_report |-> Ta, news_report |-> Ta,
           fundamentals_report |-> Ta, macro_report |-> Ta]}
    \cup MergeChunks

\* C5: for each analyst report field, once the owning analyst is completed,
\* processing a chunk never makes the stored report shorter, and the analyst
\* is completed after the chunk as well, so the same holds for every later
\* chunk of the sequence.
C5_LengthNeverDecreases ==
    MergeTarget # NoSymbol =>
        \A chunk \in LengthProbes :
            LET after == MergeOnce(chunk).st
            IN \A rt \in AnalystReportSet :
                  Completed(rt) =>
                     /\ LenOrEmpty(after.current_reports[rt]) >= LenOrEmpty(Stored(rt))
                     /\ after.agent_statuses[report_to_agent[rt]] = "completed"

\* every analyst is completed; the stored macro report is replaced neither
\* by another report of its length nor by a blank one, the stored sentiment
\* report not by a shorter one
C5_Witness ==
    /\ MergeTarget = "A"
    /\ \A rt \in AnalystReportSet : Completed(rt)
    /\ Stored("macro_report") = Ta
    /\ ReportAfter("macro_report", Tb) = Ta
    /\ ReportAfter("macro_report", Blank) = Ta
    /\ Stored("sentiment_report") = T5
    /\ ReportAfter("sentiment_report", Taa) = T5

(***************************************************************************)
(* The coordinator's copies                                                *)
(***************************************************************************)

BaseView == View(heap, coord.base)

CopyView(ty) == View(heap, tasks[ty].copy)

\* C6: every analyst task works on its own deep copy: a step of one task
\* changes neither the base state the coordinator was called with nor the
\* copy of another task, and the coordinator's merge leaves the base state as
\* it was.
C6_Isolation ==
    [][coord.base # 0 =>
          /\ BaseView' = BaseView
          /\ \A ty \in AnalystTypeSet, o \in AnalystTypeSet :
                (tasks'[ty] # tasks[ty] /\ o # ty /\ tasks[o].copy # 0)
                   => CopyView(o)' = CopyView(o)]_vars

\* one task has changed its copy in place while the other task is running on
\* a copy that still equals the base state
C6_Witness ==
    \E ty \in AnalystTypeSet, o \in AnalystTypeSet :
        /\ o # ty
        /\ tasks[ty].mutated > 0
        /\ tasks[ty].copy # 0
        /\ CopyView(ty) # BaseView
        /\ tasks[o].pc = "running"
        /\ CopyView(o) = BaseView

Output == View(heap, coord.output)

\* C7: when the coordinator has returned, every selected analyst's task has
\* reached its end, also when another task raised, and the report of every
\* task that did not raise is in the returned state under its report field;
\* the coordinator ends by returning.
C7_FailureContained ==
    /\ coord.pc \in {"idle", "running", "returned"}
    /\ coord.pc = "returned" =>
          \A ty \in SeqSet(coord.selected) :
              /\ tasks[ty].pc = "done"
              /\ (~tasks[ty].failed /\ Truthy(tasks[ty].report_content)) =>
                    /\ ReportFieldOf(ty) \in DOMAIN Output.fields
                    /\ Output.fields[ReportFieldOf(ty)] = tasks[ty].report_content

\* the market task raised, the social task returned its report, and the
\* coordinator returned a state that holds the social report
C7_Witness ==
    /\ coord.pc = "returned"
    /\ tasks["market"].failed
    /\ ~tasks["social"].failed
    /\ coord.order = <<"social", "market">>
    /\ Output.fields["sentiment_report"] = NodeReport("social")

\* C8: in the state the coordinator returns, the report field of every
\* selected analyst is a key, and it is the empty string for every analyst
\* whose task raised.
C8_FailedReportsEmpty ==
    coord.pc = "returned" =>
        \A ty \in SeqSet(coord.selected) :
            /\ ReportFieldOf(ty) \in DOMAIN Output.fields
            /\ tasks[ty].failed => Output.fields[ReportFieldOf(ty)] = <<>>

(***************************************************************************)
(* Tool timeouts                                                           *)
(***************************************************************************)

\* the records of the log that belong to the current call of thread c
RecordsOf(c) ==
    SelectSeq(tool_calls_log, LAMBDA r : r.call = <<c, calls[c].n>>)

\* C10: a call whose function had not ended when the timeout budget was used
\* up has exactly one record in the log, with status timeout; the wrapper does
\* not raise, and once it has returned, what it returned is a string
\* containing "timed out".
C10_ToolTimeout ==
    \A c \in DOMAIN calls :
        calls[c].timed_out =>
           /\ Len(RecordsOf(c)) = 1
           /\ RecordsOf(c)[1].status = "timeout"
           /\ calls[c].pc \in {"leaving", "returned"}
           /\ calls[c].pc = "returned" =>
                 Contains(calls[c].result, <<"t", "i", "m", "e", "d", " ", "o", "u", "t">>)

\* a call timed out, its function ended later, and the wrapper has returned
C10_Witness ==
    \E c \in DOMAIN calls :
        /\ calls[c].timed_out
        /\ calls[c].pc = "returned"
        /\ calls[c].worker = "value"
        /\ calls[c].result = TimeoutMessage(calls[c].web)

\* C11: the caller of a call that timed out eventually receives the
\* wrapper's result, whether or not the wrapped function ever ends.
C11_CallerReceivesResult ==
    \A c \in Callers : calls[c].timed_out ~> (calls[c].pc = "returned")

\* the wrapper of thread c has handled its current call
Handled(c) == calls[c].pc \in {"leaving", "returned", "raised"}

\* C12: a call whose function raised an exception, of whatever type, before
\* the timeout budget was used up has exactly one record, with status error,
\* and the wrapper raises to its caller.
C12_ExceptionReRaised ==
    \A c \in Callers :
        (Handled(c) /\ ~calls[c].timed_out
                    /\ calls[c].worker \in {"error", "timeout_error"}) =>
           /\ Len(RecordsOf(c)) = 1
           /\ RecordsOf(c)[1].status = "error"
           /\ calls[c].pc = "raised"

\* the records of the log that belong to call k of thread c
RecordsOfCall(c, k) == SelectSeq(tool_calls_log, LAMBDA r : r.call = <<c, k>>)

\* what an invocation delivers: a timeout when future.result gave up or
\* raised a TimeoutError, otherwise what the function did
OutcomeOf(c) ==
    IF calls[c].timed_out \/ calls[c].worker = "timeout_error" THEN "timeout"
    ELSE IF calls[c].worker = "value" THEN "success" ELSE "error"

InvestVerdict(chunk) ==
    /\ "investment_debate_state" \in DOMAIN chunk
    /\ Has(chunk.investment_debate_state, "judge_decision")

RiskVerdict(chunk) ==
    /\ "risk_debate_state" \in DOMAIN chunk
    /\ Has(chunk.risk_debate_state, "judge_decision")

ResearchTeamCompleted(st) ==
    \A a \in {"Bull Researcher", "Bear Researcher", "Research Manager"} :
        st.agent_statuses[a] = "completed"

\* C14 as stated: after a chunk whose investment debate has a non-empty
\* judge_decision both researchers and the Research Manager are completed
\* and Trader is in_progress.
C14_InvestVerdictAsStated ==
    MergeTarget # NoSymbol =>
        \A chunk \in VerdictProbes :
            InvestVerdict(chunk) =>
                LET after == MergeOnce(chunk).st
                IN /\ ResearchTeamCompleted(after)
                   /\ after.agent_statuses["Trader"] = "in_progress"

\* C14, precisely: after such a chunk both researchers and the Research
\* Manager are completed, and Trader is in_progress unless the same chunk
\* carries a non-empty trader_investment_plan, in which case Trader is
\* completed.
C14_InvestVerdict ==
    MergeTarget # NoSymbol =>
        \A chunk \in VerdictProbes :
            InvestVerdict(chunk) =>
                LET after == MergeOnce(chunk).st
                IN /\ ResearchTeamCompleted(after)
                   /\ after.agent_statuses["Trader"] =
                         IF Has(chunk, "trader_investment_plan")
                         THEN "completed" ELSE "in_progress"

\* the verdict of the investment debate was merged into a session whose
\* researchers had not both completed before
C14_Witness ==
    /\ MergeTarget # NoSymbol
    /\ symbol_states[MergeTarget].investment_debate_state # NoDebate
    /\ Has(symbol_states[MergeTarget].investment_debate_state, "judge_decision")
    /\ ResearchTeamCompleted(symbol_states[MergeTarget])
    /\ symbol_states[MergeTarget].agent_statuses["Trader"] = "in_progress"
    /\ symbol_states[MergeTarget].current_reports["investment_plan"] = <<"j">>

\* C15: after a chunk whose risk debate has a non-empty judge_decision the
\* three risk debaters and the Portfolio Manager are completed,
\* portfolio_decision and final_trade_decision are that judge_decision, and
\* analysis_complete is true.
C15_RiskVerdict ==
    MergeTarget # NoSymbol =>
        \A chunk \in VerdictProbes :
            RiskVerdict(chunk) =>
                LET after == MergeOnce(chunk).st
                    decision == chunk.risk_debate_state.judge_decision
                IN /\ \A a \in {"Risky Analyst", "Safe Analyst", "Neutral Analyst",
                                 "Portfolio Manager"} :
                          after.agent_statuses[a] = "completed"
                   /\ after.current_reports["portfolio_decision"] = decision
                   /\ after.current_reports["final_trade_decision"] = decision
                   /\ after.analysis_complete

\* the verdict of the risk debate was merged while a risk debater was
\* in progress
C15_Witness ==
    /\ MergeTarget # NoSymbol
    /\ symbol_states[MergeTarget].analysis_complete
    /\ symbol_states[MergeTarget].current_reports["portfolio_decision"] = <<"d">>
    /\ symbol_states[MergeTarget].current_reports["risky_report"] = <<"r">>
    /\ symbol_states[MergeTarget].agent_statuses["Risky Analyst"] = "completed"
    /\ symbol_states[MergeTarget].agent_statuses["Portfolio Manager"] = "completed"

\* C16: analysis_complete of a symbol state goes from false to true only in
\* a step that processes a chunk whose risk debate carries a non-empty
\* judge_decision.
C16_OnlyVerdictCompletes ==
    [][\A o \in DOMAIN symbol_states \cap DOMAIN symbol_states' :
          (~symbol_states[o].analysis_complete /\ symbol_states'[o].analysis_complete)
             => \E s \in Symbols :
                   /\ runs'[s].ntrace = runs[s].ntrace + 1
                   /\ RiskVerdict(runs'[s].last_chunk)]_vars

(***************************************************************************)
(* The five analysts                                                       *)
(***************************************************************************)

StatusOf(st, rt) == st.agent_statuses[report_to_agent[rt]]

\* C17: a call of process_chunk_updates takes an analyst from in_progress to
\* completed only when the chunk carries, for the analyst's report field, a
\* value that differs from the one stored before the call.
C17_CompletesOnlyOnNewValue ==
    MergeTarget # NoSymbol =>
        \A chunk \in MergeChunks :
            LET after == MergeOnce(chunk).st
            IN \A rt \in AnalystReportSet :
                  (/\ StatusOf(symbol_states[MergeTarget], rt) = "in_progress"
                   /\ StatusOf(after, rt) = "completed")
                     => /\ rt \in DOMAIN chunk
                        /\ chunk[rt] # Stored(rt)

\* C18: when a call of process_chunk_updates completes an in_progress
\* analyst and a later analyst of the sequence was pending, the first such
\* analyst has left pending when the call returns (it is in_progress, or
\* completed when the same chunk carried its report as well). Stated for
\* the case that the analysts between the two had already completed.
C18_NextPendingStarts ==
    MergeTarget # NoSymbol =>
        \A chunk \in MergeChunks :
            LET seq == AnalystSequence(active_analysts)
                before == symbol_states[MergeTarget].agent_statuses
                after == MergeOnce(chunk).st.agent_statuses
            IN \A i \in 1..Len(seq) : \A j \in (i + 1)..Len(seq) :
                  (/\ before[seq[i]] = "in_progress"
                   /\ after[seq[i]] = "completed"
                   /\ before[seq[j]] = "pending"
                   /\ \A k \in (i + 1)..(j - 1) : before[seq[k]] = "completed")
                     => after[seq[j]] # "pending"

\* the step processes a chunk, by one more iteration of a stream loop
ChunkStep(s) == runs'[s].ntrace = runs[s].ntrace + 1

\* C19: an analyst goes from pending to in_progress only in a step that
\* processes a chunk, and then only if the chunk carries the human message
\* or the analyst's predecessor in the sequence was completed by that chunk;
\* no other operation performs the transition.
C19_StartOnlyByRule ==
    [][\A o \in DOMAIN symbol_states \cap DOMAIN symbol_states' :
          LET seq == AnalystSequence(active_analysts)
              before == symbol_states[o].agent_statuses
              after == symbol_states'[o].agent_statuses
          IN \A a \in Analysts :
                (before[a] = "pending" /\ after[a] = "in_progress") =>
                   \E s \in Symbols :
                      /\ ChunkStep(s)
                      /\ \/ /\ HasMessages(runs'[s].last_chunk)
                            /\ InSeq(runs'[s].last_chunk.messages, "human")
                         \/ \E i \in 1..(Len(seq) - 1) :
                               /\ seq[i + 1] = a
                               /\ before[seq[i]] = "in_progress"
                               /\ after[seq[i]] = "completed"]_vars

(***************************************************************************)
(* Circuit breaker                                                         *)
(***************************************************************************)

\* the hard limit of accepted updates per report field (state.py 607)
HardLimit == 15

\* the symbol state after process_chunk_updates(chunk) five seconds from now
MergeLater(chunk) ==
    MergeChunk(ChunkContext(MergeTarget), chunk, AnalystSequence(active_analysts),
               now + 5).st

\* C20: once the update counter of a report field exceeds 15, whatever value
\* a later chunk carries for the field, the stored report, its timestamp and
\* its update counter stay as they are.
C20_CircuitBreaker ==
    MergeTarget # NoSymbol =>
        \A rt \in AnalystReportSet :
            symbol_states[MergeTarget].update_count[rt] > HardLimit =>
                \A v \in ProbeTexts :
                    LET before == symbol_states[MergeTarget]
                        after == MergeLater((rt :> v) @@ HumanMessages)
                    IN /\ after.current_reports[rt] = before.current_reports[rt]
                       /\ after.report_timestamps[rt] = before.report_timestamps[rt]
                       /\ after.update_count[rt] = before.update_count[rt]

\* market_report was accepted 16 times in the session and a longer value
\* arrives for it
C20_Witness ==
    /\ MergeTarget = "A"
    /\ symbol_states["A"].update_count["market_report"] = HardLimit + 1
    /\ Stored("market_report") \in {T5, U5}
    /\ MergeLater("market_report" :> T8).current_reports["market_report"]
          = Stored("market_report")

(***************************************************************************)
(* Debate speakers                                                         *)
(***************************************************************************)

\* the debate speakers: the agent, the chunk key of its debate state, the
\* field whose content process_chunk_updates tests for, the speaker's message
\* list and history in the debate state, its report field, and the prefix its
\* texts carry
Speakers ==
    {[agent |-> "Bull Researcher", debate |-> "investment_debate_state",
      content |-> "bull_history", messages |-> "bull_messages",
      history |-> "bull_history", report |-> "bull_report",
      prefix |-> <<>>],
     [agent |-> "Bear Researcher", debate |-> "investment_debate_state",
      content |-> "bear_history", messages |-> "bear_messages",
      history |-> "bear_history", report |-> "bear_report",
      prefix |-> <<>>],
     [agent |-> "Risky Analyst", debate |-> "risk_debate_state",
      content |-> "current_risky_response", messages |-> "risky_messages",
      history |-> "risky_history", report |-> "risky_report",
      prefix |-> RiskyPrefix],
     [agent |-> "Safe Analyst", debate |-> "risk_debate_state",
      content |-> "current_safe_response", messages |-> "safe_messages",
      history |-> "safe_history", report |-> "safe_report",
      prefix |-> SafePrefix],
     [agent |-> "Neutral Analyst", debate |-> "risk_debate_state",
      content |-> "current_neutral_response", messages |-> "neutral_messages",
      history |-> "neutral_history", report |-> "neutral_report",
      prefix |-> NeutralPrefix]}

\* the chunk carries content for the speaker
HasContentFor(chunk, sp) ==
    sp.debate \in DOMAIN chunk /\ Has(chunk[sp.debate], sp.content)

\* C21: a chunk carrying content for a pending debate speaker takes the
\* speaker out of pending, and no chunk changes the status of a speaker that
\* is completed.
C21_SpeakerStatus ==
    MergeTarget # NoSymbol =>
        \A chunk \in VerdictProbes : \A sp \in Speakers :
            LET before == symbol_states[MergeTarget].agent_statuses[sp.agent]
                after == MergeOnce(chunk).st.agent_statuses[sp.agent]
            IN /\ (before = "pending" /\ HasContentFor(chunk, sp)) => after # "pending"
               /\ before = "completed" => after = "completed"

\* risk debate states that carry the speakers' message lists
\* (propagation.py 52-54) next to the current responses
RiskStatesWithMessages ==
    {EmptyRisk @@ [risky_messages |-> <<<<"q">>, <<"r">>>>, safe_messages |-> <<>>,
                   neutral_messages |-> <<>>],
     [EmptyRisk EXCEPT !.current_risky_response = RiskyPrefix \o <<"r">>,
                       !.risky_history = RiskyPrefix \o <<"q">> \o RiskyPrefix \o <<"r">>]
        @@ [risky_messages |-> <<<<"q">>, RiskyPrefix \o <<"r">>>>,
            safe_messages |-> <<>>, neutral_messages |-> <<>>],
     [EmptyRisk EXCEPT !.current_safe_response = <<"s">>,
                       !.safe_history = <<"s">>]
        @@ [risky_messages |-> <<>>, safe_messages |-> <<<<"s">>>>,
            neutral_messages |-> <<>>]}

\* the chunks the speakers' reports are probed with
SpeakerProbes ==
    VerdictProbes \cup {"risk_debate_state" :> rs : rs \in RiskStatesWithMessages}

\* C22: after a chunk with content for a speaker, the speaker's report is
\* the last element of the speaker's message list when that list is
\* non-empty, and the speaker's full history otherwise.
C22_ReportIsLatestMessage ==
    MergeTarget # NoSymbol =>
        \A chunk \in SpeakerProbes : \A sp \in Speakers :
            HasContentFor(chunk, sp) =>
                LET ds == chunk[sp.debate]
                IN MergeOnce(chunk).st.current_reports[sp.report] =
                      IF Has(ds, sp.messages) THEN Last(ds[sp.messages])
                      ELSE ds[sp.history]

\* verdicts of the risk debate with histories to rebuild reports from: two
\* turns of one debater, and a history that holds nothing but the prefix
BackFillStates ==
    {[EmptyRisk EXCEPT !.judge_decision = <<"d">>,
                       !.risky_history = RiskyPrefix \o <<"q">> \o RiskyPrefix \o <<"r">>,
                       !.safe_history = SafePrefix \o <<"s">>],
     [EmptyRisk EXCEPT !.judge_decision = <<"d">>,
                       !.risky_history = RiskyPrefix,
                       !.neutral_history = <<" ">> \o NeutralPrefix \o <<"n", " ">>],
     [EmptyRisk EXCEPT !.judge_decision = <<"d">>,
                       !.current_safe_response = SafePrefix \o <<"t">>,
                       !.safe_history = SafePrefix \o <<"s">> \o SafePrefix \o <<"t">>]}

BackFillProbes ==
    SpeakerProbes \cup {"risk_debate_state" :> rs : rs \in BackFillStates}

RiskDebaters == {sp \in Speakers : sp.debate = "risk_debate_state"}

\* the debater's report when the verdict branch is reached: what the
\* debater's own branch stored from the chunk, or else the stored report
ReportAtVerdict(chunk, sp) ==
    IF HasContentFor(chunk, sp)
    THEN LET content == chunk[sp.debate][sp.content]
         IN IF StartsWith(content, sp.prefix) THEN DropFirst(content, Len(sp.prefix))
            ELSE content
    ELSE symbol_states[MergeTarget].current_reports[sp.report]

\* the debate state of the chunk has a non-empty history for the debater
HasHistory(chunk, sp) == Has(chunk[sp.debate], sp.history)

\* C23 as stated: at the verdict of the risk debate a debater whose report
\* is empty and whose history in the chunk is non-empty gets a non-empty
\* report, and a report that is non-empty is left as it is.
C23_BackFillAsStated ==
    MergeTarget # NoSymbol =>
        \A chunk \in BackFillProbes : \A sp \in RiskDebaters :
            RiskVerdict(chunk) =>
                LET at_verdict == ReportAtVerdict(chunk, sp)
                    after == MergeOnce(chunk).st.current_reports[sp.report]
                IN /\ (~Truthy(at_verdict) /\ HasHistory(chunk, sp)) => Truthy(after)
                   /\ Truthy(at_verdict) => after = at_verdict

\* C23, precisely: at the verdict a debater whose report is empty and whose
\* history in the chunk is non-empty gets the history with every occurrence
\* of its prefix removed and the surrounding whitespace stripped, which is
\* empty when the history holds nothing else; a report that is non-empty is
\* left as it is, and so is an empty one without history.
C23_BackFill ==
    MergeTarget # NoSymbol =>
        \A chunk \in BackFillProbes : \A sp \in RiskDebaters :
            RiskVerdict(chunk) =>
                LET at_verdict == ReportAtVerdict(chunk, sp)
                    after == MergeOnce(chunk).st.current_reports[sp.report]
                IN after = IF ~Truthy(at_verdict) /\ HasHistory(chunk, sp)
                           THEN Strip(RemoveAll(chunk[sp.debate][sp.history], sp.prefix))
                           ELSE at_verdict

\* risky_report was stored from the debate and safe_report is still empty;
\* the verdict rebuilds safe_report from its history and leaves risky_report
C23_Witness ==
    /\ MergeTarget = "A"
    /\ symbol_states["A"].current_reports["risky_report"] = <<"r">>
    /\ ~Truthy(symbol_states["A"].current_reports["safe_report"])
    /\ LET chunk == "risk_debate_state" :>
                        [EmptyRisk EXCEPT !.judge_decision = <<"d">>,
                            !.risky_history = RiskyPrefix \o <<"q">> \o RiskyPrefix \o <<"r">>,
                            !.safe_history = SafePrefix \o <<"s">>]
           after == MergeOnce(chunk).st.current_reports
       IN /\ chunk \in BackFillProbes
          /\ after["risky_report"] = <<"r">>
          /\ after["safe_report"] = <<"s">>

(***************************************************************************)
(* Sessions                                                                *)
(***************************************************************************)

\* C24: a step that starts a new session for a symbol that already has a
\* state leaves every agent status pending, every report null,
\* analysis_complete false and the ticker of the state unchanged.
C24_NewSessionResets ==
    [][\A s \in DOMAIN symbol_states \cap DOMAIN symbol_states' :
          symbol_states'[s].session_id # symbol_states[s].session_id =>
             /\ \A a \in Agents : symbol_states'[s].agent_statuses[a] = "pending"
             /\ \A f \in ReportFields : symbol_states'[s].current_reports[f] = NoneV
             /\ ~symbol_states'[s].analysis_complete
             /\ symbol_states'[s].ticker_symbol = symbol_states[s].ticker_symbol]_vars

\* C25: the agent statuses and the reports of a symbol state change only in
\* a step that processes a chunk; no analyst task and no other caller
\* writes them.
C25_OnlyMergerWrites ==
    [][\A o \in DOMAIN symbol_states \cap DOMAIN symbol_states' :
          (\/ symbol_states'[o].agent_statuses # symbol_states[o].agent_statuses
           \/ symbol_states'[o].current_reports # symbol_states[o].current_reports)
             => \E s \in Symbols : ChunkStep(s)]_vars

\* C26: in every symbol state, recommended_action, analysis_results and
\* chart_data are populated only if analysis_complete is true.
C26_OutputsOnlyWhenComplete ==
    \A s \in DOMAIN symbol_states :
        (\/ symbol_states[s].recommended_action # NoneV
         \/ symbol_states[s].analysis_results
         \/ symbol_states[s].chart_data)
           => symbol_states[s].analysis_complete

\* the sequences of calls one run of execute_single_analyst may have made
AnalystRunOrders ==
    {<<>>,
     <<"reasoning">>,
     <<"reasoning", "extraction">>,
     <<"reasoning", "tools", "reasoning">>,
     <<"reasoning", "tools", "reasoning", "extraction">>}

StatedField(ty) == IF ty = "social" THEN "sentiment_report" ELSE ty \o "_report"

\* the ticker under which a task stores its report in the UI
TaskTicker == GetOrEmpty(BaseView.fields, "company_of_interest")

\* C28: the social analyst writes sentiment_report, in the state the
\* coordinator returns and in the symbol state, and no social_report key is
\* ever created; every other analyst X writes X_report.
C28_SocialWritesSentiment ==
    /\ \A d \in DOMAIN heap.d : "social_report" \notin DOMAIN heap.d[d].fields
    /\ \A s \in DOMAIN symbol_states :
          "social_report" \notin DOMAIN symbol_states[s].current_reports
    /\ \A ty \in SeqSet(coord.selected) :
          (tasks[ty].pc = "done" /\ ~tasks[ty].failed /\ Truthy(tasks[ty].report_content))
             => /\ coord.pc = "returned" =>
                      /\ StatedField(ty) \in DOMAIN Output.fields
                      /\ Output.fields[StatedField(ty)] = tasks[ty].report_content
                /\ (Truthy(TaskTicker) /\ TaskTicker[1] \in DOMAIN symbol_states) =>
                      symbol_states[TaskTicker[1]].current_reports[StatedField(ty)]
                         = tasks[ty].report_content

\* both analysts returned a report and the coordinator returned: the social
\* report is under sentiment_report in the returned state and in the symbol
\* state
C28_Witness ==
    /\ coord.pc = "returned"
    /\ \A ty \in {"market", "social"} :
          ~tasks[ty].failed /\ tasks[ty].report_content = NodeReport(ty)
    /\ Output.fields["sentiment_report"] = NodeReport("social")
    /\ Output.fields["market_report"] = NodeReport("market")
    /\ symbol_states["A"].current_reports["sentiment_report"] = NodeReport("social")

\* the statuses and reports after process_chunk_updates(first) and then
\* process_chunk_updates(second) in the current state
MergedInOrder(first, second) ==
    LET st == MergeAgain(MergeOnce(first), second).st
    IN [agent_statuses |-> st.agent_statuses, current_reports |-> st.current_reports]

\* C29: the merger is order tolerant: two chunks with different keys, merged
\* in either order from the same symbol state, leave the same agent statuses
\* and the same reports.
C29_OrderTolerance ==
    MergeTarget # NoSymbol =>
        \A c1 \in MergeChunks, c2 \in MergeChunks :
            DOMAIN c1 \cap DOMAIN c2 = {} =>
                MergedInOrder(c1, c2) = MergedInOrder(c2, c1)

\* the orders in which as_completed may yield the tasks of a set of analysts
CompletionOrders(S) ==
    {o \in [1..Cardinality(S) -> S] :
        \A i \in DOMAIN o, j \in DOMAIN o : o[i] = o[j] => i = j}

\* what the merge loop stores for one analyst, from that analyst's result alone
OwnContribution(ty) ==
    LET content == ExtractContent(View(heap, coord.results[ty]), ReportFieldOf(ty))
    IN IF Truthy(content) THEN content
       ELSE GetOrEmpty(BaseView.fields, ReportFieldOf(ty))

\* C30: the state the coordinator returns is the same for every order in
\* which the analysts complete: each analyst contributes its own report field
\* only, and every other field, the messages included, is the base state's.
C30_CompletionOrderIrrelevant ==
    coord.pc = "returned" =>
        LET own == {ReportFieldOf(ty) : ty \in SeqSet(coord.selected)}
        IN /\ \A o \in CompletionOrders(SeqSet(coord.selected)) :
                 MergeResults(BaseView, heap, o, coord.results) = Output
           /\ Output.messages = BaseView.messages
           /\ DOMAIN Output.fields = DOMAIN BaseView.fields \cup own
           /\ \A ty \in SeqSet(coord.selected) :
                 Output.fields[ReportFieldOf(ty)] = OwnContribution(ty)
           /\ \A f \in DOMAIN BaseView.fields \ own :
                 Output.fields[f] = BaseView.fields[f]

\* the coordinator returned after the social task completed before the
\* market task, both with a report, on a base state that has other fields
C30_Witness ==
    /\ coord.pc = "returned"
    /\ coord.order = <<"social", "market">>
    /\ \A ty \in {"market", "social"} :
          ~tasks[ty].failed /\ tasks[ty].report_content = NodeReport(ty)
    /\ "company_of_interest" \in DOMAIN Output.fields
    /\ Output.fields["market_report"] = NodeReport("market")

(***************************************************************************)
(* Progress, sessions and the stream                                       *)
(***************************************************************************)

\* C31: whenever an analyst is in_progress and process_chunk_updates handles
\* a chunk with a non-empty report for it, the analyst is completed when the
\* call returns, whatever the value of the field's update counter.
C31_ReportCompletesInProgress ==
    MergeTarget # NoSymbol =>
        \A rt \in AnalystReportSet, v \in ProbeTexts :
            (/\ Strip(v) # <<>>
             /\ symbol_states[MergeTarget].agent_statuses[report_to_agent[rt]]
                   = "in_progress")
               => MergeOnce(rt :> v).st.agent_statuses[report_to_agent[rt]]
                     = "completed"

\* C32: the circuit breaker is per session: when a new session starts for a
\* symbol (get_next_symbol on a symbol that has a state, or reset_for_loop),
\* the update counter of every report field starts from zero.
C32_CountersResetPerSession ==
    [][\A s \in DOMAIN symbol_states \cap DOMAIN symbol_states' :
          symbol_states'[s].session_id # symbol_states[s].session_id =>
              \A rt \in AnalystReportSet : symbol_states'[s].update_count[rt] = 0]_vars

\* no wrapped tool invocation is in flight: every thread is outside the wrapper
NoCallInFlight ==
    \A c \in Callers :
        calls[c].pc \in {"idle", "returned", "raised"} /\ calls[c].counting = "no"

\* C33: whenever no wrapped tool invocation is in flight, tool_calls_count
\* equals the number of records in tool_calls_log, for every interleaving of
\* the invocations of different threads.
C33_CountMatchesLog ==
    NoCallInFlight => tool_calls_count = Len(tool_calls_log)

\* how far an agent has got
StatusRank(status) ==
    CASE status = "pending" -> 0
      [] status = "in_progress" -> 1
      [] status = "completed" -> 2

SelectedNames(s) == {AnalystName(ty) : ty \in SeqSet(runs[s].selected)}

\* C35: a process_chunk_updates call leaves every analyst that is not among
\* the analysts selected for the run in pending: neither the human-message
\* rule nor the advance-to-next rule starts it.
C35_UnselectedStayPending ==
    [][\A s \in DOMAIN symbol_states :
          ChunkStep(s) =>
              \A a \in Analysts \ SelectedNames(s) :
                  symbol_states[s].agent_statuses[a] = "pending"
                     => symbol_states'[s].agent_statuses[a] = "pending"]_vars

\* the analysts of a symbol state that are in progress
InProgressAnalysts(st) == {a \in Analysts : st.agent_statuses[a] = "in_progress"}

\* C36: in a session that starts with every agent pending and whose statuses
\* are written by process_chunk_updates, at most one of the five analysts is
\* in progress in every reachable state.
C36_OneAnalystInProgress ==
    \A s \in DOMAIN symbol_states :
        Cardinality(InProgressAnalysts(symbol_states[s])) <= 1

\* the report of the first analyst completed it and the advance rule started
\* the next analyst of the sequence, which a later human message left alone
C36_Witness ==
    /\ runs["A"].pc = "streaming"
    /\ runs["A"].ntrace >= 2
    /\ symbol_states["A"].agent_statuses["Market Analyst"] = "completed"
    /\ InProgressAnalysts(symbol_states["A"]) = {"Social Analyst"}

\* C37: run_analysis called for a ticker that has no symbol state reports the
\* error and returns: it does not raise and it changes nothing of the
\* application state.
C37_NoStateReturns ==
    [][\A s \in Symbols :
          (~HasState(s) /\ runs'[s] # runs[s]) =>
              /\ runs'[s].pc = "done"
              /\ UNCHANGED <<analysis_queue, symbol_states, current_symbol,
                             analyzing_symbol, active_analysts, needs_ui_update,
                             generated_reports_count, llm_calls_log,
                             llm_calls_count>>]_vars

\* the stream of the activation of s raised in this step: the activation ends
\* without final results
StreamRaised(s) ==
    /\ runs[s].pc = "streaming"
    /\ runs'[s].pc = "done"
    /\ ~symbol_states'[s].analysis_results

\* C38: a trade is executed only in a state where the ticker's analysis is
\* complete and a recommended action is available; when the chunk stream
\* raises before its end no trade is executed and analysis_running is false
\* afterwards.
C38_TradeOnlyAfterCompletion ==
    [][\A s \in DOMAIN symbol_states :
          /\ (~runs[s].traded /\ runs'[s].traded) =>
                 /\ symbol_states'[s].analysis_complete
                 /\ \/ Truthy(symbol_states'[s].recommended_action)
                    \/ Truthy(symbol_states'[s].current_reports["final_trade_decision"])
          /\ StreamRaised(s) =>
                 /\ ~runs'[s].traded
                 /\ ~symbol_states'[s].analysis_running]_vars

\* a trade was made for a completed analysis whose action was extracted
\* from the final trade decision
C38_Witness ==
    /\ runs["A"].pc = "done"
    /\ runs["A"].traded
    /\ symbol_states["A"].analysis_complete
    /\ symbol_states["A"].recommended_action = NoneV
    /\ ~symbol_states["A"].analysis_running

\* the stream raised after chunks had been merged: no trade, not running
C38_RaisedWitness ==
    /\ runs["A"].pc = "done"
    /\ runs["A"].ntrace > 0
    /\ ~symbol_states["A"].analysis_results
    /\ ~runs["A"].traded
    /\ ~symbol_states["A"].analysis_running

(***************************************************************************)
(* Two tickers                                                             *)
(***************************************************************************)

\* C9: a step of the analysis of one ticker (a chunk it streams, a status
\* update of its coordinator or of its driver) changes the symbol state of
\* no other ticker.
C9_OtherTickerUnchanged ==
    [][\A s \in Symbols, o \in Symbols :
          (runs'[s] # runs[s] /\ o # s /\ o \in DOMAIN symbol_states)
             => symbol_states'[o] = symbol_states[o]]_vars

====
